---- MODULE Spec2Model ----
(***************************************************************************)
(* PasteMD: the paste workflow (PasteWorkflow.execute and its handlers)    *)
(* as a state machine.  One hotkey activation is one invocation of         *)
(* execute(); every call to a collaborator (clipboard, detector,           *)
(* converter, inserter, launcher, file system, notification manager) is    *)
(* appended to the trace `calls`, and the answer of the collaborator is    *)
(* chosen by the environment at the moment of the call.                    *)
(***************************************************************************)
EXTENDS Integers, Sequences, FiniteSets, TLC

VARIABLES
    pc,                  \* position inside execute()
    config,              \* the entries of app_state.config the invocation has read
    clip,                \* the system clipboard: text and file references
    loc,                 \* local variables of execute() and its handlers
    pandoc_integration,  \* PasteWorkflow.pandoc_integration (kept between invocations)
    calls,               \* trace of collaborator calls of this invocation
    exc,                 \* exception in flight inside execute()
    escaped              \* exception that left execute()

vars == <<pc, config, clip, loc, pandoc_integration, calls, exc, escaped>>

------------------------------------------------------------------------------
(* Bounds *)

MaxFiles == 2            \* file references on the clipboard
MaxLines == 2            \* lines of a Markdown file handed to the merge
MaxBody == 3             \* characters of the payload of a CF_HTML container
MaxOffset == 3           \* largest offset declared by a CF_HTML header

------------------------------------------------------------------------------
(* Values *)

\* Clipboard texts: empty, whitespace only, a Markdown document ending in a
\* newline, a Markdown table, a Markdown document of 100 lines.
ClipTexts == {"", "ws", "doc\n", "tbl", "long"}

\* Files that can be referenced from the clipboard.
FileNames == {"a.md", "B.md", "c.txt"}

NoAppAction == {"open", "save", "clipboard", "none"}

Targets == {"word", "wps", "excel", "wps_excel", "none"}

\* line_count >= 100 triggers the "conversion started" notification
ConversionStartedLines == 100

\* A value handed to or returned by a collaborator: the text chunks it was
\* built from (joined with "\n") and the functions applied to them, outermost
\* first.
Val(ops, chunks) == [ops |-> ops, chunks |-> chunks]

NoneV == Val(<<"None">>, <<>>)

TextV(t) == Val(<<>>, <<t>>)

Ap(f, v) == Val(<<f>> \o v.ops, v.chunks)

\* not text or not text.strip()
IsBlank(t) == t \in {"", "ws"}

\* str.strip()
Strip(t) ==
    CASE t = "doc\n" -> "doc"
      [] t = "ws" -> ""
      [] OTHER -> t

\* str.count('\n') of one chunk
NewlineCount(t) ==
    CASE t = "doc\n" -> 2
      [] t = "doc" -> 1
      [] t = "tbl" -> 2
      [] t = "long" -> 99
      [] OTHER -> 0

RECURSIVE SumNewlines(_)
SumNewlines(chunks) ==
    IF chunks = <<>> THEN 0
    ELSE NewlineCount(Head(chunks)) + SumNewlines(Tail(chunks))

\* md_text.count('\n') + 1 of the chunks joined with "\n"
LineCount(v) ==
    IF v.chunks = <<>> THEN 1
    ELSE SumNewlines(v.chunks) + (Len(v.chunks) - 1) + 1

\* parse_markdown_table: the rows of a Markdown table, None otherwise
parse_markdown_table(v) ==
    IF v.ops = <<>> /\ v.chunks = <<"tbl">>
    THEN Ap("parse_markdown_table", v)
    ELSE NoneV

\* content of a referenced file
FileContent(name) ==
    CASE name = "a.md" -> "tbl"
      [] name = "B.md" -> "doc\n"
      [] OTHER -> "bin"

\* f.lower().endswith((".md", ".markdown"))
IsMarkdownName(name) == name \in {"a.md", "B.md"}

\* rank of os.path.basename(x).lower() in lexicographic order
LowerKey(name) ==
    CASE name = "a.md" -> 1
      [] name = "B.md" -> 2
      [] OTHER -> 3

\* sequences without repetition of at most n file names
FileSeqs(n) ==
    {s \in UNION {[1..k -> FileNames] : k \in 0..n} :
        \A i, j \in 1..Len(s) : i # j => s[i] # s[j]}

------------------------------------------------------------------------------
(* Trace of collaborator calls *)

Call(op, arg, ok) == [op |-> op, arg |-> arg, ok |-> ok]

\* notification_manager.notify("PasteMD", t(key), ok=ok)
Notify(key, ok) == Call("notify", Val(<<key>>, <<>>), ok)

RECURSIVE SelectOps(_, _)
SelectOps(s, ops) ==
    IF s = <<>> THEN <<>>
    ELSE IF Head(s).op \in ops
         THEN <<Head(s)>> \o SelectOps(Tail(s), ops)
         ELSE SelectOps(Tail(s), ops)

CountOps(s, ops) == Len(SelectOps(s, ops))

Notes(s) == SelectOps(s, {"notify"})

Key(c) == c.arg.ops[1]

------------------------------------------------------------------------------
(* Answers of the collaborators *)

InitOutcomes == {"ok", "fallback", "fail"}          \* PandocIntegration(...)
ConvOutcomes == {"ok", "PandocError", "Exception"}  \* convert_*_to_docx_bytes
InsertOutcomes == {"true", "false", "InsertError", "Exception"}
WriteOutcomes == {"ok", "OSError"}                  \* open(path, "wb") / write
SheetOutcomes == {"true", "false", "Exception"}     \* AppLauncher.generate_*
CopyOutcomes == {"ok", "ClipboardError"}            \* copy_files_to_clipboard

\* result of a handler: the extended trace, the exception it raised and the
\* state of the lazily created converter
Res(c, e, p) == [calls |-> c, exc |-> e, pandoc |-> p]

\* the exception a converter call ended with, recorded after the call
Raised(outcome) ==
    IF outcome = "ok" THEN <<>> ELSE <<Call("raise", Val(<<outcome>>, <<>>), FALSE)>>

\* _ensure_pandoc_integration refusing a converter that was used before
_ensure_pandoc_integration_once(c, p, init) ==
    IF p = "ready"
    THEN Res(c \o <<Notify("workflow.pandoc.init_failed", FALSE)>>, "none", "None")
    ELSE CASE init = "ok" ->
                Res(c \o <<Call("PandocIntegration", Val(<<"config">>, <<>>), TRUE)>>,
                    "none", "ready")
           [] init = "fallback" ->
                Res(c \o <<Call("PandocIntegration", Val(<<"config">>, <<>>), FALSE),
                           Call("PandocIntegration", Val(<<"default">>, <<>>), TRUE),
                           Call("config_write", Val(<<"pandoc_path">>, <<>>), TRUE),
                           Call("ConfigLoader.save", Val(<<"config">>, <<>>), TRUE)>>,
                    "none", "ready")
           [] OTHER ->
                Res(c \o <<Call("PandocIntegration", Val(<<"config">>, <<>>), FALSE),
                           Call("PandocIntegration", Val(<<"default">>, <<>>), FALSE),
                           Notify("workflow.pandoc.init_failed", FALSE)>>,
                    "none", "None")

\* _ensure_pandoc_integration
_ensure_pandoc_integration(c, p, init) ==
    IF p = "ready" THEN Res(c, "none", p)
    ELSE CASE init = "ok" ->
                Res(c \o <<Call("PandocIntegration", Val(<<"config">>, <<>>), TRUE)>>,
                    "none", "ready")
           [] init = "fallback" ->
                Res(c \o <<Call("PandocIntegration", Val(<<"config">>, <<>>), FALSE),
                           Call("PandocIntegration", Val(<<"default">>, <<>>), TRUE),
                           Call("config_write", Val(<<"pandoc_path">>, <<>>), TRUE),
                           Call("ConfigLoader.save", Val(<<"config">>, <<>>), TRUE)>>,
                    "none", "ready")
           [] OTHER ->
                Res(c \o <<Call("PandocIntegration", Val(<<"config">>, <<>>), FALSE),
                           Call("PandocIntegration", Val(<<"default">>, <<>>), FALSE),
                           Notify("workflow.pandoc.init_failed", FALSE)>>,
                    "none", "None")

\* result of a Word/WPS flow: Res and the local `inserted`, "unset" as long
\* as _perform_word_insertion has not returned
WithInserted(r, inserted) ==
    [calls |-> r.calls, exc |-> r.exc, pandoc |-> r.pandoc, inserted |-> inserted]

AppName(target) == IF target = "word" THEN "Word" ELSE "WPS"

\* InsertViaEphemeralFile handing the document to the inserter a second time
\* after a failed attempt
InsertViaEphemeralFileRetry(c, docx, target, tmp, ins) ==
    LET path == Ap("EphemeralFile", docx)
        c1 == c \o <<Call("EphemeralFile.write_bytes", path, tmp = "ok")>>
        r == IF tmp = "ok" /\ ins \in {"false", "InsertError"}
             THEN [calls |-> c1 \o <<Call("word_inserter.insert", path, FALSE),
                                     Call("word_inserter.insert", path, FALSE)>>,
                   exc |-> "none"]
             ELSE [calls |-> c1 \o <<Call("word_inserter.insert", path, ins = "true")>>,
                   exc |-> IF ins = "Exception" THEN "Exception" ELSE "none"]
        cx == <<Call("EphemeralFile.delete", path, TRUE)>>
    IN  IF tmp # "ok" THEN WithInserted(Res(c1 \o cx, "Exception", "ready"), "unset")
        ELSE WithInserted(Res(r.calls \o cx, r.exc, "ready"),
                          CASE ins = "Exception" -> "unset"
                            [] ins = "true" -> "true"
                            [] OTHER -> "false")

\* InserterOf always choosing the Microsoft Excel inserter for spreadsheets
InserterOfExcelOnly(target) ==
    CASE target = "word" -> "word_inserter.insert"
      [] target = "wps" -> "wps_inserter.insert"
      [] OTHER -> "ms_excel_inserter.insert"

\* _perform_word_insertion: the inserter of the target is called once;
\* InsertError is turned into False, any other exception propagates
InserterOf(target) ==
    CASE target = "word" -> "word_inserter.insert"
      [] target = "wps" -> "wps_inserter.insert"
      [] target = "wps_excel" -> "wps_excel_inserter.insert"
      [] OTHER -> "ms_excel_inserter.insert"

\* _perform_word_insertion calling the inserter again after an InsertError
_perform_word_insertion_again(c, path, target, ins) ==
    IF target \in {"word", "wps"}
    THEN WithInserted(Res(c \o <<Call(InserterOf(target), path, ins = "true")>>
                            \o (IF ins = "InsertError"
                                THEN <<Call(InserterOf(target), path, FALSE)>>
                                ELSE <<>>),
                          IF ins = "Exception" THEN "Exception" ELSE "none", "ready"),
                      CASE ins = "Exception" -> "unset"
                        [] ins = "true" -> "true"
                        [] OTHER -> "false")
    ELSE WithInserted(Res(c, "none", "ready"), "false")

_perform_word_insertion(c, path, target, ins) ==
    IF target \in {"word", "wps"}
    THEN WithInserted(Res(c \o <<Call(InserterOf(target), path, ins = "true")>>,
                          IF ins = "Exception" THEN "Exception" ELSE "none", "ready"),
                      CASE ins = "Exception" -> "unset"
                        [] ins = "true" -> "true"
                        [] OTHER -> "false")
    ELSE WithInserted(Res(c, "none", "ready"), "false")

\* _show_word_result without its `else`: the failure is notified as well
_show_word_result_both(c, target, inserted, from_md_file, file_count) ==
    IF inserted
    THEN c \o <<Notify("workflow.word.insert_success", TRUE),
                Notify("workflow.insert_failed_no_app", FALSE)>>
    ELSE c \o <<Notify("workflow.insert_failed_no_app", FALSE)>>

\* _show_word_result
_show_word_result(c, target, inserted, from_md_file, file_count) ==
    IF inserted
    THEN c \o <<Notify(IF from_md_file
                       THEN (IF file_count > 1
                             THEN "workflow.md_file.insert_success_multi"
                             ELSE "workflow.md_file.insert_success")
                       ELSE "workflow.word.insert_success", TRUE)>>
    ELSE c \o <<Notify("workflow.insert_failed_no_app", FALSE)>>

\* InsertViaEphemeralFile with the insertion ahead of the write of the file
InsertBeforeWrite(c, docx, target, tmp, ins) ==
    LET path == Ap("EphemeralFile", docx)
        r == _perform_word_insertion(c, path, target, ins)
        c1 == r.calls \o <<Call("EphemeralFile.write_bytes", path, tmp = "ok")>>
        cx == <<Call("EphemeralFile.delete", path, TRUE)>>
    IN  IF r.exc # "none" THEN WithInserted(Res(r.calls \o cx, r.exc, "ready"), r.inserted)
        ELSE IF tmp # "ok" THEN WithInserted(Res(c1 \o cx, "Exception", "ready"), "unset")
        ELSE WithInserted(Res(c1 \o cx, "none", "ready"), r.inserted)

\* with EphemeralFile(...) as eph: eph.write_bytes(docx); _perform_word_insertion
InsertViaEphemeralFile(c, docx, target, tmp, ins) ==
    LET path == Ap("EphemeralFile", docx)
        c1 == c \o <<Call("EphemeralFile.write_bytes", path, tmp = "ok")>>
        r == _perform_word_insertion(c1, path, target, ins)
        cx == <<Call("EphemeralFile.delete", path, TRUE)>>
    IN  IF tmp # "ok" THEN WithInserted(Res(c1 \o cx, "Exception", "ready"), "unset")
        ELSE WithInserted(Res(r.calls \o cx, r.exc, "ready"), r.inserted)

\* _handle_word_flow
_handle_word_flow(c, p, md_text, target, from_md_file, file_count, keep_file, o) ==
    LET t1 == Ap("normalize_markdown", md_text)
        t2 == Ap("convert_latex_delimiters", t1)
        c1 == c \o <<Call("normalize_markdown", md_text, TRUE),
                     Call("convert_latex_delimiters", t1, TRUE)>>
        c2 == IF LineCount(t2) >= ConversionStartedLines
              THEN c1 \o <<Notify("workflow.markdown.conversion_started", TRUE)>>
              ELSE c1
        e == _ensure_pandoc_integration(c2, p, o.init)
        raw == Ap("convert_to_docx_bytes", t2)
        c3 == e.calls \o <<Call("convert_to_docx_bytes", t2, o.conv = "ok")>>
                      \o Raised(o.conv)
        docx == Ap("apply_custom_processing", raw)
        c4 == c3 \o <<Call("apply_custom_processing", raw, TRUE)>>
        i == InsertViaEphemeralFile(c4, docx, target, o.tmp, o.ins)
        c5 == IF keep_file
              THEN i.calls
                   \o <<Call("generate_output_path", NoneV, TRUE),
                        Call("write", docx, o.save = "ok")>>
                   \o (IF o.save = "ok" THEN <<>>
                       ELSE <<Notify("workflow.document.save_failed", FALSE)>>)
              ELSE i.calls
    IN  IF e.pandoc = "None" THEN WithInserted(Res(e.calls, "none", "None"), "unset")
        ELSE IF o.conv # "ok" THEN WithInserted(Res(c3, o.conv, "ready"), "unset")
        ELSE IF i.exc # "none" THEN WithInserted(Res(i.calls, i.exc, "ready"), i.inserted)
        ELSE WithInserted(Res(_show_word_result(c5, target, i.inserted = "true",
                                                from_md_file, file_count),
                              "none", "ready"),
                          i.inserted)

\* SaveHtmlCopy without its own try: the failure reaches the clauses of the flow
SaveHtmlCopyUncaught(c, html, docx, save) ==
    [calls |-> c \o <<Call("generate_output_path", html, TRUE),
                      Call("write", docx, save = "ok")>>,
     exc |-> IF save = "ok" THEN "none" ELSE "OSError"]

\* _handle_html_to_word_flow, lines 368-379: the durable copy; a failure is
\* logged and nothing else
SaveHtmlCopy(c, html, docx, save) ==
    [calls |-> c \o <<Call("generate_output_path", html, TRUE),
                      Call("write", docx, save = "ok")>>,
     exc |-> "none"]

\* _handle_html_to_word_flow: every exception is caught inside the handler
_handle_html_to_word_flow(c, p, html_text, target, keep_file, o) ==
    LET c0 == IF html_text = NoneV
              THEN c \o <<Call("get_clipboard_html", NoneV, o.html = "ok")>>
              ELSE c
        html == IF html_text = NoneV THEN Val(<<"get_clipboard_html">>, <<>>)
                ELSE html_text
        e == _ensure_pandoc_integration(c0, p, o.init)
        raw == Ap("convert_html_to_docx_bytes", html)
        c3 == e.calls \o <<Call("convert_html_to_docx_bytes", html, o.conv = "ok")>>
                      \o Raised(o.conv)
        docx == Ap("apply_custom_processing", raw)
        c4 == c3 \o <<Call("apply_custom_processing", raw, TRUE)>>
        i == InsertViaEphemeralFile(c4, docx, target, o.tmp, o.ins)
        k == IF keep_file THEN SaveHtmlCopy(i.calls, html, docx, o.save)
             ELSE [calls |-> i.calls, exc |-> "none"]
        c5 == k.calls
        r == IF html_text = NoneV /\ o.html # "ok"
             THEN Res(c0 \o <<Notify("workflow.html.clipboard_failed", FALSE)>>, "none", p)
             ELSE IF e.pandoc = "None" THEN Res(e.calls, "none", "None")
             ELSE IF o.conv = "PandocError"
             THEN Res(c3 \o <<Notify("workflow.html.convert_failed_format", FALSE)>>,
                      "none", "ready")
             ELSE IF o.conv = "Exception"
             THEN Res(c3 \o <<Notify("workflow.html.convert_failed_generic", FALSE)>>,
                      "none", "ready")
             ELSE IF i.exc # "none"
             THEN Res(i.calls \o <<Notify("workflow.html.convert_failed_generic", FALSE)>>,
                      "none", "ready")
             ELSE IF k.exc # "none"
             THEN Res(c5 \o <<Notify("workflow.html.convert_failed_generic", FALSE)>>,
                      "none", "ready")
             ELSE IF i.inserted = "true"
             THEN Res(c5 \o <<Notify("workflow.html.insert_success", TRUE)>>,
                      "none", "ready")
             ELSE Res(c5 \o <<Notify("workflow.insert_failed_no_app", FALSE)>>,
                      "none", "ready")
    IN  WithInserted(r, IF (html_text = NoneV /\ o.html # "ok") \/ e.pandoc = "None"
                           \/ o.conv # "ok"
                        THEN "unset" ELSE i.inserted)

\* _handle_excel_flow: no notification when the inserter returns False
_handle_excel_flow(c, md_text, target, ins) ==
    LET table_data == parse_markdown_table(md_text)
        c1 == c \o <<Call("parse_markdown_table", md_text, table_data # NoneV)>>
        c2 == c1 \o <<Call(InserterOf(target), table_data, ins = "true")>>
    IN  IF table_data = NoneV
        THEN Res(c1 \o <<Notify("workflow.table.invalid_with_app", FALSE)>>, "none", "")
        ELSE CASE ins = "true" ->
                    Res(c2 \o <<Notify("workflow.table.insert_success", TRUE)>>, "none", "")
               [] ins = "InsertError" ->
                    Res(c2 \o <<Notify("workflow.table.insert_failed", FALSE)>>, "none", "")
               [] ins = "Exception" -> Res(c2, "Exception", "")
               [] OTHER -> Res(c2, "none", "")

------------------------------------------------------------------------------
(* No-target policy executor *)

\* result of a generator: trace, exception, converter state, bytes, path
Gen(c, e, p, docx, path) ==
    [calls |-> c, exc |-> e, pandoc |-> p, docx |-> docx, path |-> path]

PathOp(keep_file) ==
    IF keep_file THEN "generate_output_path(save_dir)"
    ELSE "generate_output_path(temp)"

\* _generate_docx_from_markdown: a converter that could not be initialised
\* is dereferenced (AttributeError)
_generate_docx_from_markdown(c, p, md_text, keep_file, o) ==
    LET t1 == Ap("normalize_markdown", md_text)
        t2 == Ap("convert_latex_delimiters", t1)
        path == Ap(PathOp(keep_file), t2)
        c1 == c \o <<Call("normalize_markdown", md_text, TRUE),
                     Call("convert_latex_delimiters", t1, TRUE),
                     Call("generate_output_path", t2, TRUE)>>
        e == _ensure_pandoc_integration(c1, p, o.init)
        raw == Ap("convert_to_docx_bytes", t2)
        c3 == e.calls \o <<Call("convert_to_docx_bytes", t2, o.conv = "ok")>>
                      \o Raised(o.conv)
        docx == Ap("apply_custom_processing", raw)
    IN  IF e.pandoc = "None" THEN Gen(e.calls, "AttributeError", "None", NoneV, path)
        ELSE IF o.conv # "ok" THEN Gen(c3, o.conv, "ready", NoneV, path)
        ELSE Gen(c3 \o <<Call("apply_custom_processing", raw, TRUE)>>,
                 "none", "ready", docx, path)

\* _generate_docx_from_html
_generate_docx_from_html(c, p, md_text, html_text, keep_file, o) ==
    LET c0 == IF html_text = NoneV
              THEN c \o <<Call("get_clipboard_html", NoneV, o.html = "ok")>>
              ELSE c
        html == IF html_text = NoneV THEN Val(<<"get_clipboard_html">>, <<>>)
                ELSE html_text
        e == _ensure_pandoc_integration(c0, p, o.init)
        raw == Ap("convert_html_to_docx_bytes", html)
        c3 == e.calls \o <<Call("convert_html_to_docx_bytes", html, o.conv = "ok")>>
                      \o Raised(o.conv)
        docx == Ap("apply_custom_processing", raw)
        path == Ap(PathOp(keep_file), html)
    IN  IF html_text = NoneV /\ o.html # "ok"
        THEN Gen(c0, "ClipboardError", p, NoneV, NoneV)
        ELSE IF e.pandoc = "None" THEN Gen(e.calls, "AttributeError", "None", NoneV, NoneV)
        ELSE IF o.conv # "ok" THEN Gen(c3, o.conv, "ready", NoneV, NoneV)
        ELSE Gen(c3 \o <<Call("apply_custom_processing", raw, TRUE),
                         Call("generate_output_path", html, TRUE)>>,
                 "none", "ready", docx, path)

\* with open(output_path, "wb") as f: f.write(docx_bytes)
WriteFile(c, g, save) == c \o <<Call("write", g.path, save = "ok")>>

\* _generate_and_open_document
_generate_and_open_document(c, p, md_text, from_md_file, o) ==
    LET g == _generate_docx_from_markdown(c, p, md_text, TRUE, o)
        c1 == WriteFile(g.calls, g, o.save)
        c2 == c1 \o <<Call("awaken_and_open_document", g.path, o.launch)>>
    IN  IF g.exc = "PandocError"
        THEN Res(g.calls \o <<Notify("workflow.markdown.convert_failed", FALSE)>>,
                 "none", g.pandoc)
        ELSE IF g.exc # "none"
        THEN Res(g.calls \o <<Notify("workflow.document.generate_failed", FALSE)>>,
                 "none", g.pandoc)
        ELSE IF o.save # "ok"
        THEN Res(c1 \o <<Notify("workflow.document.generate_failed", FALSE)>>,
                 "none", g.pandoc)
        ELSE IF o.launch
        THEN Res(c2 \o <<Notify(IF from_md_file
                                THEN "workflow.md_file.generated_and_opened"
                                ELSE "workflow.document.generated_and_opened", TRUE)>>,
                 "none", g.pandoc)
        ELSE Res(c2 \o <<Notify("workflow.document.open_failed", FALSE)>>,
                 "none", g.pandoc)

\* _generate_and_open_html_document
_generate_and_open_html_document(c, p, md_text, html_text, o) ==
    LET g == _generate_docx_from_html(c, p, md_text, html_text, TRUE, o)
        c1 == WriteFile(g.calls, g, o.save)
        c2 == c1 \o <<Call("awaken_and_open_document", g.path, o.launch)>>
    IN  IF g.exc = "ClipboardError"
        THEN Res(g.calls \o <<Notify("workflow.html.clipboard_failed", FALSE)>>,
                 "none", g.pandoc)
        ELSE IF g.exc = "PandocError"
        THEN Res(g.calls \o <<Notify("workflow.html.convert_failed_format", FALSE)>>,
                 "none", g.pandoc)
        ELSE IF g.exc # "none"
        THEN Res(g.calls \o <<Notify("workflow.html.generate_failed", FALSE)>>,
                 "none", g.pandoc)
        ELSE IF o.save # "ok"
        THEN Res(c1 \o <<Notify("workflow.html.generate_failed", FALSE)>>,
                 "none", g.pandoc)
        ELSE IF o.launch
        THEN Res(c2 \o <<Notify("workflow.html.generated_and_opened", TRUE)>>,
                 "none", g.pandoc)
        ELSE Res(c2 \o <<Notify("workflow.document.open_failed", FALSE)>>,
                 "none", g.pandoc)

\* _generate_and_open_spreadsheet
_generate_and_open_spreadsheet(c, p, md_text, o) ==
    LET table_data == parse_markdown_table(md_text)
        c1 == c \o <<Call("parse_markdown_table", md_text, table_data # NoneV)>>
        path == Ap(PathOp(TRUE), table_data)
        c2 == c1 \o <<Call("generate_output_path", table_data, TRUE),
                      Call("generate_and_open_spreadsheet", path, o.sheet = "true")>>
    IN  IF table_data = NoneV
        THEN Res(c1 \o <<Notify("workflow.table.invalid_simple", FALSE)>>, "none", p)
        ELSE CASE o.sheet = "true" ->
                    Res(c2 \o <<Notify("workflow.table.export_success", TRUE)>>, "none", p)
               [] o.sheet = "false" ->
                    Res(c2 \o <<Notify("workflow.table.export_open_failed", FALSE)>>,
                        "none", p)
               [] OTHER ->
                    Res(c2 \o <<Notify("workflow.table.export_failed", FALSE)>>, "none", p)

\* _generate_and_save_document handing the saved file to the launcher as well
_generate_and_save_document_launch(c, p, md_text, from_md_file, o) ==
    LET g == _generate_docx_from_markdown(c, p, md_text, TRUE, o)
        c1 == WriteFile(g.calls, g, o.save)
    IN  IF g.exc # "none" \/ o.save # "ok"
        THEN Res(g.calls \o <<Notify("workflow.document.save_failed", FALSE)>>,
                 "none", g.pandoc)
        ELSE Res(c1 \o <<Call("awaken_and_open_document", g.path, TRUE),
                          Notify(IF from_md_file THEN "workflow.md_file.saved"
                                 ELSE "workflow.action.saved", TRUE)>>,
                 "none", g.pandoc)

\* _generate_and_save_document
_generate_and_save_document(c, p, md_text, from_md_file, o) ==
    LET g == _generate_docx_from_markdown(c, p, md_text, TRUE, o)
        c1 == WriteFile(g.calls, g, o.save)
    IN  IF g.exc = "PandocError"
        THEN Res(g.calls \o <<Notify("workflow.markdown.convert_failed", FALSE)>>,
                 "none", g.pandoc)
        ELSE IF g.exc # "none"
        THEN Res(g.calls \o <<Notify("workflow.document.save_failed", FALSE)>>,
                 "none", g.pandoc)
        ELSE IF o.save # "ok"
        THEN Res(c1 \o <<Notify("workflow.document.save_failed", FALSE)>>,
                 "none", g.pandoc)
        ELSE Res(c1 \o <<Notify(IF from_md_file THEN "workflow.md_file.saved"
                                ELSE "workflow.action.saved", TRUE)>>,
                 "none", g.pandoc)

\* _generate_and_save_html_document
_generate_and_save_html_document(c, p, md_text, html_text, o) ==
    LET g == _generate_docx_from_html(c, p, md_text, html_text, TRUE, o)
        c1 == WriteFile(g.calls, g, o.save)
    IN  IF g.exc = "ClipboardError"
        THEN Res(g.calls \o <<Notify("workflow.html.clipboard_failed", FALSE)>>,
                 "none", g.pandoc)
        ELSE IF g.exc = "PandocError"
        THEN Res(g.calls \o <<Notify("workflow.html.convert_failed_format", FALSE)>>,
                 "none", g.pandoc)
        ELSE IF g.exc # "none"
        THEN Res(g.calls \o <<Notify("workflow.document.save_failed", FALSE)>>,
                 "none", g.pandoc)
        ELSE IF o.save # "ok"
        THEN Res(c1 \o <<Notify("workflow.document.save_failed", FALSE)>>,
                 "none", g.pandoc)
        ELSE Res(c1 \o <<Notify("workflow.action.saved", TRUE)>>, "none", g.pandoc)

\* _generate_and_save_spreadsheet
_generate_and_save_spreadsheet(c, p, md_text, o) ==
    LET table_data == parse_markdown_table(md_text)
        c1 == c \o <<Call("parse_markdown_table", md_text, table_data # NoneV)>>
        path == Ap(PathOp(TRUE), table_data)
        c2 == c1 \o <<Call("generate_output_path", table_data, TRUE),
                      Call("generate_spreadsheet", path, o.sheet = "true")>>
    IN  IF table_data = NoneV
        THEN Res(c1 \o <<Notify("workflow.table.invalid_simple", FALSE)>>, "none", p)
        ELSE IF o.sheet = "true"
        THEN Res(c2 \o <<Notify("workflow.action.saved", TRUE)>>, "none", p)
        ELSE Res(c2 \o <<Notify("workflow.table.export_failed", FALSE)>>, "none", p)

\* _generate_and_clipboard_document
_generate_and_clipboard_document(c, p, md_text, from_md_file, keep_file, o) ==
    LET g == _generate_docx_from_markdown(c, p, md_text, keep_file, o)
        c1 == WriteFile(g.calls, g, o.save)
        c2 == c1 \o <<Call("copy_files_to_clipboard", g.path, o.copy = "ok")>>
    IN  IF g.exc # "none"
        THEN Res(g.calls \o <<Notify("workflow.action.clipboard_failed", FALSE)>>,
                 "none", g.pandoc)
        ELSE IF o.save # "ok"
        THEN Res(c1 \o <<Notify("workflow.action.clipboard_failed", FALSE)>>,
                 "none", g.pandoc)
        ELSE IF o.copy # "ok"
        THEN Res(c2 \o <<Notify("workflow.action.clipboard_failed", FALSE)>>,
                 "none", g.pandoc)
        ELSE Res(c2 \o <<Notify(IF from_md_file THEN "workflow.md_file.clipboard_copied"
                                ELSE "workflow.action.clipboard_copied", TRUE)>>,
                 "none", g.pandoc)

\* _generate_and_clipboard_html_document
_generate_and_clipboard_html_document(c, p, md_text, html_text, keep_file, o) ==
    LET g == _generate_docx_from_html(c, p, md_text, html_text, keep_file, o)
        c1 == WriteFile(g.calls, g, o.save)
        c2 == c1 \o <<Call("copy_files_to_clipboard", g.path, o.copy = "ok")>>
    IN  IF g.exc # "none"
        THEN Res(g.calls \o <<Notify("workflow.action.clipboard_failed", FALSE)>>,
                 "none", g.pandoc)
        ELSE IF o.save # "ok"
        THEN Res(c1 \o <<Notify("workflow.action.clipboard_failed", FALSE)>>,
                 "none", g.pandoc)
        ELSE IF o.copy # "ok"
        THEN Res(c2 \o <<Notify("workflow.action.clipboard_failed", FALSE)>>,
                 "none", g.pandoc)
        ELSE Res(c2 \o <<Notify("workflow.action.clipboard_copied", TRUE)>>,
                 "none", g.pandoc)

\* _generate_and_clipboard_spreadsheet
_generate_and_clipboard_spreadsheet(c, p, md_text, keep_file, o) ==
    LET table_data == parse_markdown_table(md_text)
        c1 == c \o <<Call("parse_markdown_table", md_text, table_data # NoneV)>>
        path == Ap(PathOp(keep_file), table_data)
        c2 == c1 \o <<Call("generate_output_path", table_data, TRUE),
                      Call("generate_spreadsheet", path, o.sheet = "true")>>
        c3 == c2 \o <<Call("copy_files_to_clipboard", path, o.copy = "ok")>>
    IN  IF table_data = NoneV
        THEN Res(c1 \o <<Notify("workflow.table.invalid_simple", FALSE)>>, "none", p)
        ELSE CASE o.sheet = "Exception" ->
                    Res(c2 \o <<Notify("workflow.action.clipboard_failed", FALSE)>>,
                        "none", p)
               [] o.sheet = "false" ->
                    Res(c2 \o <<Notify("workflow.table.export_failed", FALSE)>>, "none", p)
               [] o.copy # "ok" ->
                    Res(c3 \o <<Notify("workflow.action.clipboard_failed", FALSE)>>,
                        "none", p)
               [] OTHER ->
                    Res(c3 \o <<Notify("workflow.action.clipboard_copied", TRUE)>>,
                        "none", p)

\* is_table and config.get("enable_excel", True), with the parser call traced
IsTableCall(c, md_text) ==
    c \o <<Call("parse_markdown_table", md_text, parse_markdown_table(md_text) # NoneV)>>

\* _handle_no_app_open_action
_handle_no_app_open_action(c, p, md_text, cfg, is_html, html_text, o) ==
    IF is_html THEN _generate_and_open_html_document(c, p, md_text, html_text, o)
    ELSE IF parse_markdown_table(md_text) # NoneV /\ cfg.enable_excel
    THEN _generate_and_open_spreadsheet(IsTableCall(c, md_text), p, md_text, o)
    ELSE _generate_and_open_document(IsTableCall(c, md_text), p, md_text, FALSE, o)

\* _handle_no_app_save_action
_handle_no_app_save_action(c, p, md_text, cfg, is_html, html_text, o) ==
    IF is_html THEN _generate_and_save_html_document(c, p, md_text, html_text, o)
    ELSE IF parse_markdown_table(md_text) # NoneV /\ cfg.enable_excel
    THEN _generate_and_save_spreadsheet(IsTableCall(c, md_text), p, md_text, o)
    ELSE _generate_and_save_document(IsTableCall(c, md_text), p, md_text, FALSE, o)

\* _handle_no_app_clipboard_action
_handle_no_app_clipboard_action(c, p, md_text, cfg, is_html, html_text, o) ==
    IF is_html
    THEN _generate_and_clipboard_html_document(c, p, md_text, html_text, cfg.keep_file, o)
    ELSE IF parse_markdown_table(md_text) # NoneV /\ cfg.enable_excel
    THEN _generate_and_clipboard_spreadsheet(IsTableCall(c, md_text), p, md_text,
                                             cfg.keep_file, o)
    ELSE _generate_and_clipboard_document(IsTableCall(c, md_text), p, md_text, FALSE,
                                          cfg.keep_file, o)

\* _handle_no_app_flow without the test of the disabled mode
_handle_no_app_flow_unguarded(c, p, md_text, cfg, is_html, html_text, o) ==
    IF cfg.no_app_action = "save"
    THEN _handle_no_app_save_action(c, p, md_text, cfg, is_html, html_text, o)
    ELSE IF cfg.no_app_action = "clipboard"
    THEN _handle_no_app_clipboard_action(c, p, md_text, cfg, is_html, html_text, o)
    ELSE _handle_no_app_open_action(c, p, md_text, cfg, is_html, html_text, o)

\* _handle_no_app_flow
_handle_no_app_flow(c, p, md_text, cfg, is_html, html_text, o) ==
    LET action == cfg.no_app_action
    IN  CASE action = "none" ->
                Res(c \o <<Notify("workflow.no_app_detected", FALSE)>>, "none", p)
          [] action = "open" ->
                _handle_no_app_open_action(c, p, md_text, cfg, is_html, html_text, o)
          [] action = "save" ->
                _handle_no_app_save_action(c, p, md_text, cfg, is_html, html_text, o)
          [] action = "clipboard" ->
                _handle_no_app_clipboard_action(c, p, md_text, cfg, is_html, html_text, o)
          [] OTHER ->
                Res(c \o <<Notify("workflow.no_app_detected", FALSE)>>, "none", p)

------------------------------------------------------------------------------
(* Markdown file references *)

\* InsertSorted keeping the order of the clipboard
InsertSortedAppend(s, f) == s \o <<f>>

\* insertion of a name into a sequence kept sorted by LowerKey (stable)
RECURSIVE InsertSorted(_, _)
InsertSorted(s, f) ==
    IF s = <<>> THEN <<f>>
    ELSE IF LowerKey(f) < LowerKey(Head(s)) THEN <<f>> \o s
    ELSE <<Head(s)>> \o InsertSorted(Tail(s), f)

RECURSIVE SortByLowerName(_)
SortByLowerName(s) ==
    IF s = <<>> THEN <<>>
    ELSE InsertSorted(SortByLowerName(SubSeq(s, 1, Len(s) - 1)), s[Len(s)])

\* get_markdown_files_from_clipboard without the filter on the extension
get_markdown_files_unfiltered(files) == SortByLowerName(files)

\* get_markdown_files_from_clipboard: filter on the extension, then
\* md_files.sort(key=lambda x: os.path.basename(x).lower())
get_markdown_files_from_clipboard(files) ==
    SortByLowerName(SelectSeq(files, IsMarkdownName))

\* t("workflow.md_file.read_failed", filename=filename, error=str(e))
NotifyFile(key, filename, ok) == Call("notify", Val(<<key, filename>>, <<>>), ok)

\* ReadFiles giving up at the first file that cannot be read
RECURSIVE ReadFilesAbort(_, _)
ReadFilesAbort(md_files, bad) ==
    IF md_files = <<>> THEN [calls |-> <<>>, files_data |-> <<>>]
    ELSE LET f == Head(md_files)
             rest == ReadFilesAbort(Tail(md_files), bad)
             name == Val(<<f>>, <<>>)
         IN  IF f \in bad
             THEN [calls |-> <<Call("read_file_with_encoding", name, FALSE),
                               NotifyFile("workflow.md_file.read_failed", f, FALSE)>>,
                   files_data |-> <<>>]
             ELSE [calls |-> <<Call("read_file_with_encoding", name, TRUE)>>
                             \o rest.calls,
                   files_data |-> <<[name |-> f, content |-> FileContent(f)]>>
                                  \o rest.files_data]

\* _try_read_clipboard_md_files: the files in `bad` cannot be read
RECURSIVE ReadFiles(_, _)
ReadFiles(md_files, bad) ==
    IF md_files = <<>> THEN [calls |-> <<>>, files_data |-> <<>>]
    ELSE LET f == Head(md_files)
             rest == ReadFiles(Tail(md_files), bad)
             name == Val(<<f>>, <<>>)
         IN  IF f \in bad
             THEN [calls |-> <<Call("read_file_with_encoding", name, FALSE),
                               NotifyFile("workflow.md_file.read_failed", f, FALSE)>>
                             \o rest.calls,
                   files_data |-> rest.files_data]
             ELSE [calls |-> <<Call("read_file_with_encoding", name, TRUE)>>
                             \o rest.calls,
                   files_data |-> <<[name |-> f, content |-> FileContent(f)]>>
                                  \o rest.files_data]

_try_read_clipboard_md_files(c, files, bad) ==
    LET md_files == get_markdown_files_from_clipboard(files)
        c1 == c \o <<Call("get_markdown_files_from_clipboard", NoneV, md_files # <<>>)>>
        c2 == IF Len(md_files) > 1
              THEN c1 \o <<Notify("workflow.md_file.multiple_found", TRUE)>>
              ELSE c1
        r == ReadFiles(md_files, bad)
    IN  IF md_files = <<>>
        THEN [calls |-> c1, found |-> FALSE, files_data |-> <<>>]
        ELSE [calls |-> c2 \o r.calls, found |-> Len(r.files_data) > 0,
              files_data |-> r.files_data]

\* f"<!-- Source: {filename} -->"
SourceMarker(name) ==
    CASE name = "a.md" -> "<!-- Source: a.md -->"
      [] name = "B.md" -> "<!-- Source: B.md -->"
      [] OTHER -> "<!-- Source: ? -->"

RECURSIVE MergedParts(_)
MergedParts(files_data) ==
    IF files_data = <<>> THEN <<>>
    ELSE <<SourceMarker(Head(files_data).name), Strip(Head(files_data).content), "">>
         \o MergedParts(Tail(files_data))

\* _merge_md_contents returning the first file only
_merge_md_contents_first(files_data) == TextV(files_data[1].content)

\* _merge_md_contents
_merge_md_contents(files_data) ==
    IF Len(files_data) = 1 THEN TextV(files_data[1].content)
    ELSE Val(<<>>, MergedParts(files_data))

------------------------------------------------------------------------------
(* execute() *)

Configs ==
    [no_app_action : NoAppAction, enable_excel : BOOLEAN, keep_file : BOOLEAN]

\* config.get(key) is evaluated when its line is reached: `config` holds the
\* entries read so far, and a later read of the same key sees the same value
NothingRead == <<>>

Agrees(full, cfg) == \A k \in DOMAIN cfg : full[k] = cfg[k]

ReadKeys(full, cfg, keys) == [k \in (DOMAIN cfg \cup keys) |-> full[k]]

HasRead(key) == key \in DOMAIN config

\* DEFAULT_CONFIG
DefaultConfig == [no_app_action |-> "open", enable_excel |-> TRUE, keep_file |-> FALSE]

\* the configurations an action that may read `keys` can see: they agree with
\* what was read before; the entries it cannot read are left at their default
Visible(cfg, keys) ==
    {full \in Configs :
        /\ Agrees(full, cfg)
        /\ \A k \in DOMAIN DefaultConfig :
              k \notin (DOMAIN cfg \cup keys) => full[k] = DefaultConfig[k]}

Clips == [text : ClipTexts, files : FileSeqs(MaxFiles)]

\* locals of execute() before the first statement; `path` and `flow` record
\* the branch of line 57 and the handler chosen by the dispatch
Loc0 ==
    [path |-> "", is_html |-> FALSE, is_plain |-> FALSE, should_use_html |-> FALSE,
     html_text |-> NoneV, target |-> "", flow |-> "", md_text |-> NoneV, files_data |-> <<>>, from_md_file |-> FALSE,
     file_count |-> 1, idx |-> 0, success_count |-> 0, inserted |-> "unset"]

\* answers a document flow with a focused target can get
WordAnswers(p, keep_file) ==
    [init : IF p = "ready" THEN {"ok"} ELSE InitOutcomes,
     conv : ConvOutcomes, tmp : WriteOutcomes, ins : InsertOutcomes,
     save : IF keep_file THEN WriteOutcomes ELSE {"ok"}, html : {"ok"}]

\* answers a no-target flow can get: those of the collaborators the policy
\* `action` calls for a document (sheet = FALSE) or a spreadsheet
NoAppAnswers(p, action, sheet) ==
    [init : IF p = "ready" \/ sheet \/ action = "none" THEN {"ok"} ELSE InitOutcomes,
     conv : IF sheet \/ action = "none" THEN {"ok"} ELSE ConvOutcomes,
     save : IF sheet \/ action = "none" THEN {"ok"} ELSE WriteOutcomes,
     launch : IF sheet \/ action # "open" THEN {TRUE} ELSE BOOLEAN,
     copy : IF action = "clipboard" THEN CopyOutcomes ELSE {"ok"},
     sheet : IF sheet /\ action # "none" THEN SheetOutcomes ELSE {"true"},
     html : {"ok"}]

\* ShouldUseHtml ignoring the verdict of the heuristic
ShouldUseHtmlAlways(is_plain) == TRUE

\* lines 68-69: if not is_plain: should_use_html = True
ShouldUseHtml(is_plain) == ~is_plain

\* is_clipboard_empty with the test of the text inverted
is_clipboard_empty_inverted(text, rd) == rd # "ok" \/ ~IsBlank(text)

\* is_clipboard_empty: a failed read counts as empty
is_clipboard_empty(text, rd) == rd # "ok" \/ IsBlank(text)

\* RouteText with rich text never entering the Markdown branches
RouteTextHtmlFirst(should_use_html, target, enable_excel) ==
    IF should_use_html
    THEN (IF target \in {"word", "wps"} THEN "html_word" ELSE "no_app")
    ELSE IF target \in {"excel", "wps_excel"} /\ enable_excel THEN "excel"
    ELSE IF target \in {"word", "wps"} THEN "word"
    ELSE "no_app"

\* RouteText with line 90 not testing enable_excel
RouteTextExcelAlways(should_use_html, target, enable_excel) ==
    IF should_use_html /\ target \in {"word", "wps"} THEN "html_word"
    ELSE IF target \in {"excel", "wps_excel"} THEN "excel"
    ELSE IF target \in {"word", "wps"} THEN "word"
    ELSE "no_app"

\* the if/elif chain of lines 83-103
RouteText(should_use_html, target, enable_excel) ==
    IF should_use_html /\ target \in {"word", "wps"} THEN "html_word"
    ELSE IF target \in {"excel", "wps_excel"} /\ enable_excel THEN "excel"
    ELSE IF target \in {"word", "wps"} THEN "word"
    ELSE "no_app"

\* the if/elif chain of lines 121-132
RouteFiles(target, enable_excel) ==
    IF target \in {"word", "wps"} THEN "word"
    ELSE IF target \in {"excel", "wps_excel"} /\ enable_excel THEN "excel"
    ELSE "files_no_app"

\* classes of the exceptions the collaborators raise, all below Exception
ExceptionClasses ==
    {"ClipboardError", "PandocError", "InsertError", "AttributeError", "OSError",
     "Exception"}

\* execute() without the final `except Exception` clause
ExecuteCatchesNamedOnly(e) == e \in {"ClipboardError", "PandocError"}

\* the except clauses of execute(): ClipboardError, PandocError, Exception;
\* every exception raised by the handlers is an Exception
ExecuteCatches(e) == e \in ExceptionClasses

ExecuteHandlerKey(e) ==
    CASE e = "ClipboardError" -> "workflow.clipboard.read_failed"
      [] e = "PandocError" -> "workflow.markdown.convert_failed"
      [] OTHER -> "workflow.generic.failure"

\* the handler returned or raised inside the try block of execute()
Finish(r) ==
    /\ calls' = r.calls
    /\ exc' = r.exc
    /\ pc' = IF r.exc = "none" THEN "done" ELSE "except"

Init ==
    /\ pc = "idle"
    /\ config = NothingRead
    /\ clip = [text |-> "", files |-> <<>>]
    /\ loc = Loc0
    /\ pandoc_integration = "None"
    /\ calls = <<>>
    /\ exc = "none"
    /\ escaped = "none"

\* the hotkey fires: execute() is entered and reads app_state.config
Trigger ==
    /\ pc = "idle"
    /\ pc' = "start"
    /\ config' = NothingRead
    /\ clip' \in Clips
    /\ loc' = Loc0
    /\ calls' = <<>>
    /\ exc' = "none"
    /\ escaped' = "none"
    /\ UNCHANGED pandoc_integration

\* line 57: if not is_clipboard_empty()
CheckClipboardText ==
    /\ pc = "start"
    /\ \E rd \in {"ok", "ClipboardError"} :
          /\ calls' = calls \o <<Call("get_clipboard_text", TextV(clip.text), rd = "ok")>>
          /\ IF is_clipboard_empty(clip.text, rd)
             THEN pc' = "read_files" /\ loc' = [loc EXCEPT !.path = "files"]
             ELSE pc' = "probe_html" /\ loc' = [loc EXCEPT !.path = "text"]
    /\ UNCHANGED <<config, clip, pandoc_integration, exc, escaped>>

\* ProbeHtml without the except clause of lines 72-74: the failed read of the
\* fragment reaches the handlers of execute()
ProbeHtmlRaising ==
    /\ pc = "probe_html"
    /\ \E h \in {"none", "rich", "plain"}, rd \in {"ok", "ClipboardError", "Exception"} :
          LET html == Val(<<"clean_html_content", "_extract_html_fragment">>, <<h>>)
              c1 == calls \o <<Call("is_clipboard_html", NoneV, h # "none")>>
              c2 == c1 \o <<Call("get_clipboard_html", NoneV, rd # "ClipboardError")>>
              c3 == c2 \o <<Call("is_plain_html_fragment", html, rd = "ok")>>
          IN  IF h = "none"
              THEN /\ rd = "ok"
                   /\ calls' = c1
                   /\ loc' = loc
                   /\ pc' = "detect" /\ exc' = exc
              ELSE IF rd = "ClipboardError"
              THEN /\ calls' = c2
                   /\ loc' = [loc EXCEPT !.is_html = TRUE]
                   /\ pc' = "except" /\ exc' = "ClipboardError"
              ELSE IF rd = "Exception"
              THEN /\ calls' = c3
                   /\ loc' = [loc EXCEPT !.is_html = TRUE, !.html_text = html]
                   /\ pc' = "except" /\ exc' = "Exception"
              ELSE /\ calls' = c3
                   /\ loc' = [loc EXCEPT !.is_html = TRUE, !.html_text = html,
                                         !.is_plain = (h = "plain"),
                                         !.should_use_html = ShouldUseHtml(h = "plain")]
                   /\ pc' = "detect" /\ exc' = exc
    /\ UNCHANGED <<config, clip, pandoc_integration, escaped>>

\* lines 60-76: is_clipboard_html, get_clipboard_html, is_plain_html_fragment
ProbeHtml ==
    /\ pc = "probe_html"
    /\ \E h \in {"none", "rich", "plain"}, rd \in {"ok", "ClipboardError", "Exception"} :
          LET html == Val(<<"clean_html_content", "_extract_html_fragment">>, <<h>>)
              c1 == calls \o <<Call("is_clipboard_html", NoneV, h # "none")>>
              c2 == c1 \o <<Call("get_clipboard_html", NoneV, rd # "ClipboardError")>>
              c3 == c2 \o <<Call("is_plain_html_fragment", html, rd = "ok")>>
          IN  IF h = "none"
              THEN /\ rd = "ok"
                   /\ calls' = c1
                   /\ loc' = loc
                   /\ pc' = "detect" /\ exc' = exc
              ELSE IF rd = "ClipboardError"
              THEN /\ calls' = c2
                   /\ loc' = [loc EXCEPT !.is_html = FALSE]
                   /\ pc' = "detect" /\ exc' = exc
              ELSE IF rd = "Exception"
              THEN /\ calls' = c3
                   /\ loc' = [loc EXCEPT !.is_html = TRUE, !.html_text = html]
                   /\ pc' = "except" /\ exc' = "Exception"
              ELSE /\ calls' = c3
                   /\ loc' = [loc EXCEPT !.is_html = TRUE, !.html_text = html,
                                         !.is_plain = (h = "plain"),
                                         !.should_use_html = ShouldUseHtml(h = "plain")]
                   /\ pc' = "detect" /\ exc' = exc
    /\ UNCHANGED <<config, clip, pandoc_integration, escaped>>

\* lines 79 and 118: target = detect_active_app()
DetectActiveApp ==
    /\ pc = "detect"
    /\ \E t \in Targets \cup {"raise"} :
          /\ calls' = calls \o <<Call("detect_active_app", NoneV, t # "raise")>>
          /\ IF t = "raise"
             THEN pc' = "except" /\ exc' = "Exception" /\ loc' = loc
             ELSE /\ pc' = IF loc.path = "text" THEN "route" ELSE "route_files"
                  /\ exc' = exc
                  /\ loc' = [loc EXCEPT !.target = t]
    /\ UNCHANGED <<config, clip, pandoc_integration, escaped>>

\* lines 83-103: choice of the flow for clipboard text; enable_excel is
\* read only when the target is a spreadsheet (short-circuit `and`)
DispatchText ==
    /\ pc = "route"
    /\ \E full \in Visible(config, {"enable_excel"}) :
          /\ LET flow == RouteText(loc.should_use_html, loc.target, full.enable_excel)
             IN  IF flow = "html_word"
                 THEN /\ pc' = flow
                      /\ loc' = [loc EXCEPT !.flow = flow]
                      /\ UNCHANGED <<config, calls, exc>>
                 ELSE \E rd \in {"ok", "ClipboardError"} :
                         /\ calls' = calls \o <<Call("get_clipboard_text",
                                                     TextV(clip.text), rd = "ok")>>
                         /\ IF rd = "ok"
                            THEN /\ loc' = [loc EXCEPT !.md_text = TextV(clip.text),
                                                       !.flow = flow]
                                 /\ pc' = flow /\ exc' = exc
                                 /\ config' = ReadKeys(full, config,
                                        IF loc.target \in {"excel", "wps_excel"}
                                        THEN {"enable_excel"} ELSE {})
                            ELSE /\ loc' = loc
                                 /\ pc' = "except" /\ exc' = "ClipboardError"
                                 /\ config' = config
    /\ UNCHANGED <<clip, pandoc_integration, escaped>>

HandleHtmlToWordFlow ==
    /\ pc = "html_word"
    /\ \E full \in Visible(config, {"keep_file"}) :
          /\ config' = ReadKeys(full, config, {"keep_file"})
          /\ \E o \in WordAnswers(pandoc_integration, full.keep_file) :
                LET r == _handle_html_to_word_flow(calls, pandoc_integration,
                                                   loc.html_text, loc.target,
                                                   full.keep_file, o)
                IN  /\ Finish(r) /\ pandoc_integration' = r.pandoc
                    /\ loc' = [loc EXCEPT !.inserted = r.inserted]
    /\ UNCHANGED <<clip, escaped>>

HandleWordFlow ==
    /\ pc = "word"
    /\ \E full \in Visible(config, {"keep_file"}) :
          /\ config' = ReadKeys(full, config, {"keep_file"})
          /\ \E o \in WordAnswers(pandoc_integration, full.keep_file) :
                LET r == _handle_word_flow(calls, pandoc_integration, loc.md_text,
                                           loc.target, loc.from_md_file, loc.file_count,
                                           full.keep_file, o)
                IN  /\ Finish(r) /\ pandoc_integration' = r.pandoc
                    /\ loc' = [loc EXCEPT !.inserted = r.inserted]
    /\ UNCHANGED <<clip, escaped>>

HandleExcelFlow ==
    /\ pc = "excel"
    /\ \E ins \in InsertOutcomes :
          Finish(_handle_excel_flow(calls, loc.md_text, loc.target, ins))
    /\ UNCHANGED <<config, clip, loc, pandoc_integration, escaped>>

\* the keys _handle_no_app_flow reads: the policy; enable_excel when the text
\* is a table and not rich text; keep_file under the clipboard policy
NoAppKeys(full, md_text, is_html) ==
    {"no_app_action"}
    \cup (IF full.no_app_action # "none" /\ ~is_html
             /\ parse_markdown_table(md_text) # NoneV
          THEN {"enable_excel"} ELSE {})
    \cup (IF full.no_app_action = "clipboard" THEN {"keep_file"} ELSE {})

HandleNoAppFlow ==
    /\ pc = "no_app"
    /\ \E full \in Visible(config, DOMAIN DefaultConfig) :
          /\ config' = ReadKeys(full, config,
                                NoAppKeys(full, loc.md_text, loc.should_use_html))
          /\ \E o \in NoAppAnswers(pandoc_integration, full.no_app_action,
                                   /\ ~loc.should_use_html
                                   /\ parse_markdown_table(loc.md_text) # NoneV
                                   /\ full.enable_excel) :
                LET r == _handle_no_app_flow(calls, pandoc_integration, loc.md_text,
                                             full, loc.should_use_html,
                                             IF loc.should_use_html THEN loc.html_text
                                             ELSE NoneV, o)
                IN  Finish(r) /\ pandoc_integration' = r.pandoc
    /\ UNCHANGED <<clip, loc, escaped>>

\* lines 106-115: the clipboard has no text
TryReadClipboardMdFiles ==
    /\ pc = "read_files"
    /\ \E bad \in SUBSET {clip.files[i] : i \in 1..Len(clip.files)} :
          LET r == _try_read_clipboard_md_files(calls, clip.files, bad)
          IN  IF ~r.found
              THEN /\ calls' = r.calls \o <<Notify("workflow.clipboard.empty", FALSE)>>
                   /\ loc' = loc
                   /\ pc' = "done"
              ELSE /\ calls' = r.calls
                   /\ loc' = [loc EXCEPT !.files_data = r.files_data]
                   /\ pc' = "detect"
    /\ UNCHANGED <<config, clip, pandoc_integration, exc, escaped>>

\* lines 121-132: choice of the flow for Markdown files
DispatchFiles ==
    /\ pc = "route_files"
    /\ \E full \in Visible(config, {"enable_excel"}) :
          /\ config' = ReadKeys(full, config,
                                IF loc.target \in {"excel", "wps_excel"}
                                THEN {"enable_excel"} ELSE {})
          /\ LET flow == RouteFiles(loc.target, full.enable_excel)
             IN  /\ pc' = flow
                 /\ loc' = CASE flow = "word" ->
                                  [loc EXCEPT
                                      !.flow = flow,
                                      !.md_text = _merge_md_contents(loc.files_data),
                                      !.from_md_file = TRUE,
                                      !.file_count = Len(loc.files_data)]
                             [] flow = "excel" ->
                                  [loc EXCEPT
                                      !.flow = flow,
                                      !.md_text = TextV(loc.files_data[1].content)]
                             [] OTHER -> [loc EXCEPT !.flow = flow]
    /\ UNCHANGED <<clip, pandoc_integration, calls, exc, escaped>>

\* _handle_md_files_no_app_flow, lines 236-249
MdFilesNoAppBegin ==
    /\ pc = "files_no_app"
    /\ \E full \in Visible(config, {"no_app_action", "keep_file"}) :
          /\ config' = ReadKeys(full, config,
                                {"no_app_action"} \cup
                                (IF full.no_app_action = "clipboard"
                                 THEN {"keep_file"} ELSE {}))
          /\ IF full.no_app_action = "none"
             THEN /\ calls' = calls \o <<Notify("workflow.no_app_detected", FALSE)>>
                  /\ pc' = "done"
                  /\ loc' = loc
             ELSE /\ calls' = calls
                  /\ pc' = "files_loop"
                  /\ loc' = [loc EXCEPT !.idx = 1, !.success_count = 0]
    /\ UNCHANGED <<clip, pandoc_integration, exc, escaped>>

\* one iteration of the loop of lines 251-264
ProcessMdFile(c, p, action, content, keep_file, o) ==
    CASE action = "open" -> _generate_and_open_document(c, p, TextV(content), TRUE, o)
      [] action = "save" -> _generate_and_save_document(c, p, TextV(content), TRUE, o)
      [] OTHER -> _generate_and_clipboard_document(c, p, TextV(content), TRUE,
                                                   keep_file, o)

\* success_count += 1 unless the generator raised
CountSuccess(n, r) == IF r.exc = "none" THEN n + 1 ELSE n

MdFilesNoAppStep ==
    /\ pc = "files_loop"
    /\ loc.idx <= Len(loc.files_data)
    /\ \E full \in Visible(config, {}) :
       \E o \in NoAppAnswers(pandoc_integration, full.no_app_action, FALSE) :
          /\ LET r == ProcessMdFile(calls, pandoc_integration, full.no_app_action,
                                    loc.files_data[loc.idx].content, full.keep_file, o)
             IN  /\ calls' = r.calls
                 /\ pandoc_integration' = r.pandoc
                 /\ loc' = [loc EXCEPT !.idx = @ + 1,
                                       !.success_count = CountSuccess(@, r)]
    /\ UNCHANGED <<pc, config, clip, exc, escaped>>

\* lines 266-272: the batch notification
BatchSuccess(success_count, n) == success_count > 0 /\ n > 1

MdFilesNoAppEnd ==
    /\ pc = "files_loop"
    /\ loc.idx > Len(loc.files_data)
    /\ calls' = IF BatchSuccess(loc.success_count, Len(loc.files_data))
                THEN calls \o <<Notify("workflow.md_file.batch_success", TRUE)>>
                ELSE calls
    /\ pc' = "done"
    /\ UNCHANGED <<config, clip, loc, pandoc_integration, exc, escaped>>

\* lines 134-158: the except clauses of execute()
HandleException ==
    /\ pc = "except"
    /\ IF ExecuteCatches(exc)
       THEN /\ calls' = calls \o <<Notify(ExecuteHandlerKey(exc), FALSE)>>
            /\ escaped' = "none"
       ELSE /\ calls' = calls
            /\ escaped' = exc
    /\ exc' = "none"
    /\ pc' = "done"
    /\ UNCHANGED <<config, clip, loc, pandoc_integration>>

\* execute() returns to the hotkey layer; its locals are dropped
Return ==
    /\ pc = "done"
    /\ pc' = "idle"
    /\ config' = NothingRead
    /\ clip' = [text |-> "", files |-> <<>>]
    /\ loc' = Loc0
    /\ calls' = <<>>
    /\ exc' = "none"
    /\ escaped' = "none"
    /\ UNCHANGED pandoc_integration

Next ==
    \/ Trigger
    \/ CheckClipboardText
    \/ ProbeHtml
    \/ DetectActiveApp
    \/ DispatchText
    \/ HandleHtmlToWordFlow
    \/ HandleWordFlow
    \/ HandleExcelFlow
    \/ HandleNoAppFlow
    \/ TryReadClipboardMdFiles
    \/ DispatchFiles
    \/ MdFilesNoAppBegin
    \/ MdFilesNoAppStep
    \/ MdFilesNoAppEnd
    \/ HandleException
    \/ Return

Spec == Init /\ [][Next]_vars

------------------------------------------------------------------------------
(* Properties of the paste workflow *)

Done == pc = "done"

WordTargets == {"word", "wps"}
ExcelTargets == {"excel", "wps_excel"}

DocInserters == {"word_inserter.insert", "wps_inserter.insert"}
SheetInserters == {"ms_excel_inserter.insert", "wps_excel_inserter.insert"}
Converters == {"convert_to_docx_bytes", "convert_html_to_docx_bytes"}
PolicyOps ==
    {"awaken_and_open_document", "generate_and_open_spreadsheet",
     "generate_spreadsheet", "copy_files_to_clipboard"}

N(ops) == CountOps(calls, ops)

HasNote(key) == \E i \in 1..Len(calls) : calls[i].op = "notify" /\ Key(calls[i]) = key

HasCall(op, ok) == \E i \in 1..Len(calls) : calls[i].op = op /\ calls[i].ok = ok

\* the text path with a rich-text fragment the heuristic judged not plain
RichTextFragment == loc.path = "text" /\ loc.is_html /\ ~loc.is_plain

\* the text path with anything else
PlainText == loc.path = "text" /\ ~RichTextFragment

\* the second read of the clipboard text raised: "clipboard read failed"
TextReadFailed ==
    /\ loc.flow = ""
    /\ Notes(calls) = <<Notify("workflow.clipboard.read_failed", FALSE)>>
    /\ N(Converters \cup DocInserters \cup SheetInserters \cup PolicyOps
         \cup {"parse_markdown_table"}) = 0

ExcelEnabled == HasRead("enable_excel") /\ config.enable_excel

\* C1 as stated: a rich-text fragment with a spreadsheet target never runs the
\* table-parse/table-insert flow and always falls through to the no-target
\* policy flow.
C1_AsStated ==
    (Done /\ RichTextFragment /\ loc.target \in ExcelTargets)
        => /\ N({"parse_markdown_table"} \cup SheetInserters) = 0
           /\ loc.flow = "no_app"

\* C1: a rich-text fragment with a spreadsheet target falls through to the
\* no-target policy flow (HTML variant, no table parse, no spreadsheet
\* inserter) only when enable_excel is false; when enable_excel is true the
\* table-parse/table-insert flow runs on the clipboard's plain text; if that
\* text cannot be read again, "clipboard read failed" is reported instead.
C1_RichTextSpreadsheetTarget ==
    (Done /\ RichTextFragment /\ loc.target \in ExcelTargets)
        => \/ TextReadFailed
           \/ /\ ExcelEnabled
              /\ loc.flow = "excel"
              /\ SelectOps(calls, {"parse_markdown_table"})
                    = <<Call("parse_markdown_table", TextV(clip.text),
                             clip.text = "tbl")>>
              /\ N(Converters \cup PolicyOps) = 0
           \/ /\ HasRead("enable_excel") /\ ~config.enable_excel
              /\ loc.flow = "no_app"
              /\ N({"parse_markdown_table", "convert_to_docx_bytes"}
                   \cup SheetInserters) = 0

C1_Witness ==
    /\ Done /\ RichTextFragment /\ loc.target \in ExcelTargets
    /\ ExcelEnabled
    /\ N(SheetInserters) = 1
    /\ HasNote("workflow.table.insert_success")

\* C2 as stated: with target Word or Wps exactly one conversion (HTML converter
\* for a rich-text fragment, Markdown converter for plain text) and exactly one
\* insertion attempt are made, and no policy executor or spreadsheet inserter
\* is invoked.
C2_AsStated ==
    (Done /\ loc.path = "text" /\ loc.target \in WordTargets)
        => /\ RichTextFragment
                => N({"convert_html_to_docx_bytes"}) = 1
                   /\ N({"convert_to_docx_bytes"}) = 0
           /\ PlainText
                => N({"convert_to_docx_bytes"}) = 1
                   /\ N({"convert_html_to_docx_bytes"}) = 0
           /\ N(DocInserters) = 1
           /\ N(SheetInserters \cup PolicyOps) = 0
           /\ loc.flow \in {"html_word", "word"}

\* the converter a content class is entitled to
OwnConverter ==
    IF RichTextFragment THEN "convert_html_to_docx_bytes" ELSE "convert_to_docx_bytes"

\* C2: with target Word or Wps a rich-text fragment is converted only by the
\* HTML converter and plain text only by the Markdown converter; at most one
\* conversion and at most one insertion attempt are made: the conversion is
\* attempted exactly when the text was read and the converter is initialised,
\* the insertion exactly when the conversion and the transient file write
\* succeeded; neither the no-target policy executor nor a spreadsheet inserter
\* is invoked.
C2_WordTargetConversion ==
    (Done /\ loc.path = "text" /\ loc.target \in WordTargets)
        => /\ N(Converters \ {OwnConverter}) = 0
           /\ N({OwnConverter}) <= 1
           /\ N(DocInserters) <= 1
           /\ N({OwnConverter}) = 1
                <=> (loc.flow # "" /\ ~HasNote("workflow.pandoc.init_failed"))
           /\ N(DocInserters) = 1
                <=> (HasCall(OwnConverter, TRUE)
                     /\ HasCall("EphemeralFile.write_bytes", TRUE))
           /\ N(DocInserters) = N({InserterOf(loc.target)})
           /\ N(SheetInserters \cup PolicyOps \cup {"parse_markdown_table"}) = 0
           /\ loc.flow \in {"", IF RichTextFragment THEN "html_word" ELSE "word"}

C2_Witness ==
    /\ Done /\ RichTextFragment /\ loc.target \in WordTargets
    /\ N({"convert_html_to_docx_bytes"}) = 1
    /\ N(DocInserters) = 1
    /\ HasNote("workflow.html.insert_success")

\* the text the spreadsheet flow has to parse
ExcelFlowInput ==
    IF loc.path = "text" THEN TextV(clip.text)
    ELSE TextV(loc.files_data[1].content)

\* C3: with a spreadsheet target and enable_excel true the table parser is
\* applied once, to the clipboard text or to the first file's content only;
\* if it returns rows the inserter of the target is invoked exactly once with
\* those rows, and a true result is reported as a succeeding outcome; if it
\* returns absent no inserter is invoked and exactly one failing "invalid
\* table" outcome is reported.
C3_SpreadsheetFlow ==
    (Done /\ loc.target \in ExcelTargets /\ ExcelEnabled /\ loc.flow # "")
        => LET rows == parse_markdown_table(ExcelFlowInput)
               ins == SelectOps(calls, SheetInserters)
           IN  /\ loc.flow = "excel"
               /\ SelectOps(calls, {"parse_markdown_table"})
                     = <<Call("parse_markdown_table", ExcelFlowInput, rows # NoneV)>>
               /\ rows # NoneV
                    => /\ Len(ins) = 1
                       /\ ins[1].op = InserterOf(loc.target)
                       /\ loc.target = "excel" <=> ins[1].op = "ms_excel_inserter.insert"
                       /\ ins[1].arg = rows
                       /\ ins[1].ok
                            => /\ calls[Len(calls)]
                                    = Notify("workflow.table.insert_success", TRUE)
                               /\ loc.path = "text" => Len(Notes(calls)) = 1
               /\ rows = NoneV
                    => /\ Len(ins) = 0
                       /\ calls[Len(calls)]
                            = Notify("workflow.table.invalid_with_app", FALSE)
                       /\ \A i \in 1..(Len(calls) - 1) :
                             calls[i].op = "notify"
                                => Key(calls[i]) # "workflow.table.invalid_with_app"
                       /\ loc.path = "text" => Len(Notes(calls)) = 1

C3_Witness ==
    /\ Done /\ loc.target = "wps_excel" /\ ExcelEnabled /\ loc.flow = "excel"
    /\ loc.path = "files" /\ Len(loc.files_data) = 2
    /\ HasCall("wps_excel_inserter.insert", TRUE)
    /\ HasNote("workflow.table.insert_success")

FileOps == {"get_markdown_files_from_clipboard", "read_file_with_encoding"}

\* the first read of the clipboard text (is_clipboard_empty) succeeded
FirstReadOk == Len(calls) > 0 /\ calls[1].op = "get_clipboard_text" /\ calls[1].ok

\* C4: text takes priority over file references: when the clipboard text is
\* read and non-blank the invocation follows the text path and the file
\* references are neither listed nor read nor routed; file references are
\* consulted only when the text is absent (unreadable) or blank.
C4_TextBeforeFiles ==
    (pc \notin {"idle", "start"})
        => /\ (FirstReadOk /\ ~IsBlank(clip.text))
                => /\ loc.path = "text"
                   /\ N(FileOps) = 0
                   /\ loc.files_data = <<>>
                   /\ loc.flow # "files_no_app"
                   /\ ~loc.from_md_file
           /\ (N(FileOps) > 0 \/ loc.path = "files")
                => (~FirstReadOk \/ IsBlank(clip.text))

C4_Witness ==
    /\ Done /\ ~IsBlank(clip.text) /\ loc.path = "text"
    /\ get_markdown_files_from_clipboard(clip.files) # <<>>
    /\ N(Converters) = 1

\* C5: non-blank text with a rich-text format whose cleaned fragment is judged
\* plain is handled as PlainText: the flow receives the clipboard's source
\* text, not the cleaned HTML, and the HTML converter is never invoked, for
\* every target and policy.
C5_PlainFragmentIsPlainText ==
    (Done /\ loc.path = "text" /\ loc.is_html /\ loc.is_plain)
        => /\ N({"convert_html_to_docx_bytes"}) = 0
           /\ ~loc.should_use_html
           /\ loc.flow \in {"", "excel", "word", "no_app"}
           /\ loc.flow # "" => loc.md_text = TextV(clip.text)
           /\ \A i \in 1..Len(calls) :
                 /\ calls[i].op \in {"parse_markdown_table", "normalize_markdown"}
                      => calls[i].arg = TextV(clip.text)
                 /\ calls[i].op \notin {"is_plain_html_fragment", "notify"}
                      => /\ calls[i].arg.chunks \in {<<>>, <<clip.text>>}
                         /\ \A j \in 1..Len(calls[i].arg.ops) :
                               calls[i].arg.ops[j] # "clean_html_content"

C5_Witness ==
    /\ Done /\ loc.path = "text" /\ loc.is_html /\ loc.is_plain
    /\ loc.target = "none"
    /\ HasCall("convert_to_docx_bytes", TRUE)
    /\ HasNote("workflow.document.generated_and_opened")

\* C6: when the clipboard text is absent or blank and no Markdown file is
\* referenced, exactly one notification is emitted, failing, "clipboard
\* empty", and neither the detector nor a converter, inserter, launcher or
\* file write is invoked.
C6_EmptyClipboard ==
    (Done /\ loc.path = "files"
          /\ \A i \in 1..Len(clip.files) : ~IsMarkdownName(clip.files[i]))
        => /\ Notes(calls) = <<Notify("workflow.clipboard.empty", FALSE)>>
           /\ \A i \in 1..Len(calls) :
                 calls[i].op \in {"get_clipboard_text",
                                  "get_markdown_files_from_clipboard", "notify"}
           /\ loc.target = ""

C6_Witness ==
    /\ Done /\ loc.path = "files" /\ clip.files = <<"c.txt">> /\ clip.text = "ws"
    /\ HasNote("workflow.clipboard.empty")

\* C7: no flow exits silently: every invocation of execute() has emitted at
\* least one notification by the time it returns.
C7_NoSilentExit == Done => Len(Notes(calls)) >= 1

\* notifications that accompany the outcome of a unit of work: progress,
\* converter initialisation, file listing and reading, the batch aggregate,
\* and the warning of the Word/WPS Markdown flow about the durable copy
Accompanying ==
    {"workflow.markdown.conversion_started", "workflow.pandoc.init_failed",
     "workflow.md_file.multiple_found", "workflow.md_file.read_failed",
     "workflow.md_file.batch_success"}
    \cup (IF loc.flow = "word" THEN {"workflow.document.save_failed"} ELSE {})

RECURSIVE CountOutcomes(_, _)
CountOutcomes(s, aux) ==
    IF s = <<>> THEN 0
    ELSE (IF Head(s).op = "notify" /\ Key(Head(s)) \notin aux THEN 1 ELSE 0)
         + CountOutcomes(Tail(s), aux)

\* units of work of the invocation: one per file in a no-target batch
Units == IF loc.flow = "files_no_app" THEN Len(loc.files_data) ELSE 1

\* C8 as stated: exactly one notification per unit of work and nothing else.
C8_AsStated ==
    (Done /\ (loc.path = "text" \/ loc.flow \in {"word", "files_no_app"}))
        => Len(Notes(calls)) = Units

\* C8: each unit of work produces at most one outcome notification (one per
\* invocation, one per file in a no-target batch); the "conversion started"
\* progress notification, the converter "initialisation failed" notification,
\* the "save failed" warning of the Word/WPS Markdown flow, the "multiple
\* files found" and per-file "read failed" notifications and the batch
\* aggregate are emitted in addition to it.
C8_OneOutcomePerUnit ==
    Done => CountOutcomes(calls, Accompanying) <= Units

C8_Witness ==
    /\ Done /\ loc.flow = "word" /\ loc.path = "text"
    /\ HasNote("workflow.markdown.conversion_started")
    /\ HasNote("workflow.document.save_failed")
    /\ HasNote("workflow.word.insert_success")
    /\ Len(Notes(calls)) = 3

\* C9: execute() is total: whatever the collaborators answer, it returns
\* normally and no exception propagates to the hotkey-handling layer.
C9_ExecuteTotal ==
    /\ escaped = "none"
    /\ Done => exc = "none"
    /\ pc = "except" => exc # "none"

C9_Witness ==
    /\ Done /\ escaped = "none"
    /\ HasNote("workflow.generic.failure")
    /\ HasCall("word_inserter.insert", FALSE)

\* the outcome notifications of the files of a no-target batch
FileOutcomes ==
    SelectSeq(Notes(calls), LAMBDA c : Key(c) \notin Accompanying)

\* C10: in a no-target batch the aggregate "N succeeded" notification is
\* emitted exactly when more than one file was processed and at least one
\* file's own outcome succeeded.
C10_AggregateIffSuccess ==
    (Done /\ loc.flow = "files_no_app" /\ loc.idx > 0)
        => (HasNote("workflow.md_file.batch_success")
              <=> /\ Len(loc.files_data) > 1
                  /\ \E i \in 1..Len(FileOutcomes) : FileOutcomes[i].ok)

\* the no-target policy the invocation has read
Policy == IF HasRead("no_app_action") THEN config.no_app_action ELSE "unread"

\* enable_excel of the configuration: the value read, the default otherwise
EnableExcel ==
    IF HasRead("enable_excel") THEN config.enable_excel ELSE DefaultConfig.enable_excel

SheetGenerators == {"generate_and_open_spreadsheet", "generate_spreadsheet"}
LaunchOps == {"awaken_and_open_document", "generate_and_open_spreadsheet"}
ClipboardWrites == {"copy_files_to_clipboard"}
FileWrites == {"write", "EphemeralFile.write_bytes"}

\* the Markdown texts a no-target flow has to process
PolicyTexts ==
    IF loc.flow = "files_no_app"
    THEN [i \in 1..Len(loc.files_data) |-> TextV(loc.files_data[i].content)]
    ELSE <<loc.md_text>>

\* the kind of artifact the policy owes to a Markdown text
ArtifactKind(text) ==
    IF parse_markdown_table(text) # NoneV /\ EnableExcel THEN "spreadsheet"
    ELSE "document"

TextsOfKind(kind) ==
    Cardinality({i \in 1..Len(PolicyTexts) : ArtifactKind(PolicyTexts[i]) = kind})

\* C11: the no-target policy is applied uniformly across content types: under
\* the same policy and configuration a Markdown text yields a spreadsheet when
\* it parses as a table and enable_excel is true and a document otherwise,
\* whether it is the clipboard's plain text or the content of a Markdown file.
C11_UniformPolicy ==
    (Done /\ Policy \in {"open", "save", "clipboard"}
          /\ (loc.flow = "files_no_app" \/ (loc.flow = "no_app" /\ ~loc.should_use_html)))
        => /\ N(SheetGenerators) = TextsOfKind("spreadsheet")
           /\ N({"normalize_markdown"}) = TextsOfKind("document")

GenerationOps ==
    Converters \cup SheetGenerators \cup LaunchOps \cup ClipboardWrites \cup FileWrites
    \cup {"PandocIntegration", "normalize_markdown", "generate_output_path"}

NoAppDetected == Notify("workflow.no_app_detected", FALSE)

\* C12 as stated: under policy NoOp nothing is generated, launched or written
\* and the "no application detected" outcome is the only notification, for
\* text and for file sets of any size.
C12_AsStated ==
    (Done /\ Policy = "none")
        => /\ N(GenerationOps) = 0
           /\ Notes(calls) = <<NoAppDetected>>

\* the Markdown file references of the clipboard, in the order they are read
MdFiles == get_markdown_files_from_clipboard(clip.files)

\* C12: under policy NoOp no converter, spreadsheet generator, launcher, file
\* write or clipboard write is invoked and exactly one failing "no application
\* detected" notification is emitted, as the last step; for a file set it
\* comes after the notifications of the reading of the files: "multiple files
\* found" when more than one Markdown file is referenced and one "read failed"
\* per unreadable file.
C12_NoOpPolicy ==
    (Done /\ Policy = "none")
        => /\ N(GenerationOps) = 0
           /\ calls[Len(calls)] = NoAppDetected
           /\ Len(SelectSeq(Notes(calls), LAMBDA c : c = NoAppDetected)) = 1
           /\ loc.flow \in {"no_app", "files_no_app"}
           /\ loc.flow = "no_app" => Notes(calls) = <<NoAppDetected>>
           /\ loc.flow = "files_no_app"
                => /\ Len(Notes(calls))
                        = 1 + (IF Len(MdFiles) > 1 THEN 1 ELSE 0)
                            + (Len(MdFiles) - Len(loc.files_data))
                   /\ \A i \in 1..Len(Notes(calls)) :
                         Key(Notes(calls)[i])
                            \in {"workflow.no_app_detected",
                                 "workflow.md_file.multiple_found",
                                 "workflow.md_file.read_failed"}

C12_Witness ==
    /\ Done /\ Policy = "none" /\ loc.flow = "files_no_app"
    /\ Len(loc.files_data) = 2
    /\ Len(Notes(calls)) = 2
    /\ HasNote("workflow.md_file.multiple_found")

\* the calls that received a path: the operations of the path
PathKinds(ops) ==
    {calls[i].arg.ops[1] : i \in {j \in 1..Len(calls) : calls[j].op \in ops}}

\* C13: under policy Save the artifact is generated and written to the save
\* location only: neither the launcher nor the clipboard write is invoked,
\* for text, rich text and files; the launcher is invoked only under policy
\* Open and the clipboard write only under policy CopyToClipboard.
C13_SaveOnly ==
    /\ N(LaunchOps) > 0 => Policy = "open"
    /\ N(ClipboardWrites) > 0 => Policy = "clipboard"
    /\ (Done /\ Policy = "save")
          => /\ N(LaunchOps \cup ClipboardWrites) = 0
             /\ loc.flow \in {"no_app", "files_no_app"}
             /\ PathKinds({"write", "generate_spreadsheet"})
                    \subseteq {"generate_output_path(save_dir)"}
             /\ \A i \in 1..Len(Notes(calls)) :
                   (Notes(calls)[i].ok
                    /\ Key(Notes(calls)[i]) # "workflow.md_file.multiple_found"
                    /\ Key(Notes(calls)[i]) # "workflow.md_file.batch_success")
                      => N({"write", "generate_spreadsheet"}) > 0

C13_Witness ==
    /\ Done /\ Policy = "save" /\ loc.flow = "no_app"
    /\ HasCall("generate_spreadsheet", TRUE)
    /\ HasNote("workflow.action.saved")

\* the text _merge_md_contents makes of the files that were read
Merged == _merge_md_contents(loc.files_data)

\* C14 as stated: for a file set with target Word or Wps the Markdown flow runs
\* once on the merged text with exactly one conversion, exactly one insertion
\* attempt and exactly one result outcome.
C14_AsStated ==
    (Done /\ loc.path = "files" /\ loc.target \in WordTargets)
        => /\ SelectOps(calls, {"normalize_markdown"})
                 = <<Call("normalize_markdown", Merged, TRUE)>>
           /\ N({"convert_to_docx_bytes"}) = 1
           /\ N(DocInserters) = 1
           /\ CountOutcomes(calls, Accompanying) = 1

\* C14: for a file set with target Word or Wps all files that were read are
\* merged into one Markdown text and the Markdown-to-document flow runs once
\* for the whole set, whatever the number of files: at most one conversion (of
\* the merged text, exactly when the converter is initialised), at most one
\* insertion attempt (exactly when the conversion and the transient file write
\* succeeded) and at most one result outcome; a successful insertion is
\* reported once, with the number of files.
C14_MergedWordFlow ==
    (Done /\ loc.path = "files" /\ loc.target \in WordTargets)
        => /\ loc.flow = "word"
           /\ loc.md_text = Merged
           /\ \A i \in 1..Len(loc.files_data) :
                 \E j \in 1..Len(loc.md_text.chunks) :
                    loc.md_text.chunks[j]
                       \in {loc.files_data[i].content, Strip(loc.files_data[i].content)}
           /\ loc.file_count = Len(loc.files_data)
           /\ SelectOps(calls, {"normalize_markdown"})
                 = <<Call("normalize_markdown", Merged, TRUE)>>
           /\ N({"convert_to_docx_bytes"}) <= 1
           /\ N({"convert_to_docx_bytes"}) = 1
                <=> ~HasNote("workflow.pandoc.init_failed")
           /\ \A i \in 1..Len(calls) :
                 calls[i].op = "convert_to_docx_bytes"
                    => calls[i].arg.chunks = Merged.chunks
           /\ N(DocInserters) <= 1
           /\ N(DocInserters) = 1
                <=> (HasCall("convert_to_docx_bytes", TRUE)
                     /\ HasCall("EphemeralFile.write_bytes", TRUE))
           /\ N(DocInserters) = N({InserterOf(loc.target)})
           /\ CountOutcomes(calls, Accompanying) <= 1
           /\ HasCall(InserterOf(loc.target), TRUE)
                => calls[Len(calls)]
                      = Notify(IF Len(loc.files_data) > 1
                               THEN "workflow.md_file.insert_success_multi"
                               ELSE "workflow.md_file.insert_success", TRUE)
           /\ N({"convert_html_to_docx_bytes", "parse_markdown_table"}
                \cup SheetInserters \cup PolicyOps) = 0

C14_Witness ==
    /\ Done /\ loc.path = "files" /\ loc.target = "wps"
    /\ Len(loc.files_data) = 2
    /\ N({"convert_to_docx_bytes"}) = 1
    /\ HasCall("wps_inserter.insert", TRUE)
    /\ HasNote("workflow.md_file.insert_success_multi")

------------------------------------------------------------------------------
(* merge_markdown_contents on texts: a text is the sequence of its lines,    *)
(* "\n".join of texts is the concatenation of their lines                    *)

\* lines of a Markdown file: empty, padded with blanks, a line that reads
\* like a provenance marker
MergeLines == {"", " y ", "<!-- Source: a.md -->"}

MergeNames == {"a.md", "B.md"}

Texts(n) == UNION {[1..k -> MergeLines] : k \in 1..n}

\* files_data: [(filename, content), ...] in the order of the sorted list
FilesData(n) ==
    {fd \in UNION {[1..k -> [name : MergeNames, content : Texts(MaxLines)]] : k \in 1..n} :
        \A i \in 1..(Len(fd) - 1) : LowerKey(fd[i].name) <= LowerKey(fd[i + 1].name)}

\* str.lstrip() and str.rstrip() of one line
LStripLine(l) ==
    CASE l = " y " -> "y "
      [] l = " y" -> "y"
      [] OTHER -> l

RStripLine(l) ==
    CASE l = " y " -> " y"
      [] l = "y " -> "y"
      [] OTHER -> l

BlankLine(l) == l = ""

RECURSIVE DropBlankHead(_)
DropBlankHead(t) ==
    IF t = <<>> THEN <<>>
    ELSE IF BlankLine(Head(t)) THEN DropBlankHead(Tail(t))
    ELSE t

RECURSIVE DropBlankTail(_)
DropBlankTail(t) ==
    IF t = <<>> THEN <<>>
    ELSE IF BlankLine(t[Len(t)]) THEN DropBlankTail(SubSeq(t, 1, Len(t) - 1))
    ELSE t

\* content.strip()
StripText(t) ==
    LET a == DropBlankTail(DropBlankHead(t))
    IN  IF a = <<>> THEN <<"">>
        ELSE IF Len(a) = 1 THEN <<RStripLine(LStripLine(a[1]))>>
        ELSE <<LStripLine(a[1])>> \o SubSeq(a, 2, Len(a) - 1) \o <<RStripLine(a[Len(a)])>>

\* the loop of lines 24-27
RECURSIVE merged_parts(_)
merged_parts(files_data) ==
    IF files_data = <<>> THEN <<>>
    ELSE <<SourceMarker(Head(files_data).name)>>
         \o StripText(Head(files_data).content)
         \o <<"">>
         \o merged_parts(Tail(files_data))

\* merge_markdown_contents marking a single file as well
merge_markdown_contents_marked(files_data) == merged_parts(files_data)

\* merge_markdown_contents
merge_markdown_contents(files_data) ==
    IF Len(files_data) = 1 THEN files_data[1].content
    ELSE merged_parts(files_data)

\* the variables of the paste workflow, at rest
WorkflowIdle ==
    /\ config = NothingRead
    /\ clip = [text |-> "", files |-> <<>>]
    /\ pandoc_integration = "None"
    /\ calls = <<>>
    /\ escaped = "none"

InitMerge ==
    /\ pc = "merge"
    /\ loc \in [files_data : FilesData(MaxFiles), merged : {<<>>}]
    /\ exc = "none"
    /\ WorkflowIdle

\* merged_content = merge_markdown_contents(files_data)
MergeMdContents ==
    /\ pc = "merge"
    /\ loc' = [loc EXCEPT !.merged = merge_markdown_contents(loc.files_data)]
    /\ pc' = "merged"
    /\ UNCHANGED <<config, clip, pandoc_integration, calls, exc, escaped>>

NextMerge == MergeMdContents

SpecMerge == InitMerge /\ [][NextMerge]_vars

IsMarkerLine(l) == l \in {SourceMarker(n) : n \in MergeNames}

MarkerLines(t) == Cardinality({i \in 1..Len(t) : IsMarkerLine(t[i])})

\* the text `t` holds at line `p` the marker of file `f`, then `content`,
\* then an empty line
EntryAt(t, p, f, content) ==
    /\ p + Len(content) + 1 <= Len(t)
    /\ t[p] = SourceMarker(f.name)
    /\ SubSeq(t, p + 1, p + Len(content)) = content
    /\ t[p + Len(content) + 1] = ""

\* C15 as stated: a single file is returned unchanged; N > 1 files give a
\* text with exactly N marker lines, in the order of the input, each followed
\* by the content of its file and an empty line, for any contents.
C15_AsStated ==
    pc = "merged"
        => LET fd == loc.files_data
               m == loc.merged
           IN  /\ Len(fd) = 1 => m = fd[1].content
               /\ Len(fd) > 1
                    => /\ MarkerLines(m) = Len(fd)
                       /\ \E pos \in [1..Len(fd) -> 1..Len(m)] :
                             /\ \A i \in 1..(Len(fd) - 1) : pos[i] < pos[i + 1]
                             /\ \A i \in 1..Len(fd) :
                                   EntryAt(m, pos[i], fd[i], fd[i].content)

\* line at which the entry of file i starts in the merged text
RECURSIVE EntryStart(_, _)
EntryStart(fd, i) ==
    IF i = 1 THEN 1
    ELSE EntryStart(fd, i - 1) + Len(StripText(fd[i - 1].content)) + 2

RECURSIVE ContentMarkerLines(_)
ContentMarkerLines(fd) ==
    IF fd = <<>> THEN 0
    ELSE MarkerLines(StripText(Head(fd).content)) + ContentMarkerLines(Tail(fd))

\* C15: merging a single file returns its content unchanged (no marker, no
\* trimming); merging N > 1 files returns, for each file in the order of the
\* input, a marker line naming the file, the content of the file with leading
\* and trailing whitespace removed, and an empty line, and nothing else: the
\* merge inserts exactly N marker lines, and the lines of the contents are
\* copied as they are, those that read like a marker included.
C15_MergeEntries ==
    pc = "merged"
        => LET fd == loc.files_data
               m == loc.merged
           IN  /\ Len(fd) = 1 => m = fd[1].content
               /\ Len(fd) > 1
                    => /\ \A i \in 1..Len(fd) :
                             EntryAt(m, EntryStart(fd, i), fd[i], StripText(fd[i].content))
                       /\ Len(m) = EntryStart(fd, Len(fd))
                                     + Len(StripText(fd[Len(fd)].content)) + 1
                       /\ MarkerLines(m) = Len(fd) + ContentMarkerLines(fd)

C15_Witness ==
    /\ pc = "merged"
    /\ Len(loc.files_data) = 2
    /\ loc.files_data[1] = [name |-> "a.md", content |-> <<"", " y ">>]
    /\ loc.files_data[2] = [name |-> "B.md", content |-> <<"<!-- Source: a.md -->">>]
    /\ loc.merged = <<"<!-- Source: a.md -->", "y", "",
                      "<!-- Source: B.md -->", "<!-- Source: a.md -->", "">>

------------------------------------------------------------------------------
(* Properties of the reading of Markdown files *)

\* the file references have been listed and read
FilesRead == loc.path = "files" /\ pc \notin {"start", "read_files"}

\* the file names of the calls to read_file_with_encoding, in order
ReadNames(ok) ==
    LET r == SelectSeq(calls, LAMBDA c : c.op = "read_file_with_encoding" /\ c.ok \in ok)
    IN  [i \in 1..Len(r) |-> r[i].arg.ops[1]]

DataNames == [i \in 1..Len(loc.files_data) |-> loc.files_data[i].name]

SortedByName(names) ==
    \A i, j \in 1..Len(names) : i < j => LowerKey(names[i]) <= LowerKey(names[j])

\* the Markdown file names among the references of the clipboard
MdNamesOnClipboard ==
    {clip.files[i] : i \in {j \in 1..Len(clip.files) : IsMarkdownName(clip.files[j])}}

Range(s) == {s[i] : i \in 1..Len(s)}

\* the conversions of a no-target batch and the outcomes of its files
BatchEvents ==
    SelectSeq(calls, LAMBDA c : \/ c.op = "normalize_markdown"
                                \/ (c.op = "notify" /\ Key(c) \notin Accompanying))

\* C16: the entries of a file set are in file-name order (case-insensitive)
\* whatever the order of the references on the clipboard; the files are read
\* in that order, merged in that order, and processed one after the other in
\* that order by the no-target batch, each outcome following the processing
\* of its file.
C16_FileOrder ==
    FilesRead
        => /\ SortedByName(ReadNames({TRUE, FALSE}))
           /\ Range(ReadNames({TRUE, FALSE})) = MdNamesOnClipboard
           /\ Len(ReadNames({TRUE, FALSE})) = Cardinality(MdNamesOnClipboard)
           /\ pc # "done" \/ loc.target # "" => DataNames = ReadNames({TRUE})
           /\ SortedByName(DataNames)
           /\ (loc.flow = "word" /\ Len(loc.files_data) > 1)
                => /\ Len(loc.md_text.chunks) = 3 * Len(loc.files_data)
                   /\ \A i \in 1..Len(loc.files_data) :
                         /\ loc.md_text.chunks[3 * i - 2] = SourceMarker(DataNames[i])
                         /\ loc.md_text.chunks[3 * i - 1]
                               = Strip(loc.files_data[i].content)
           /\ (loc.flow = "files_no_app" /\ loc.idx > 0)
                => /\ Len(BatchEvents) = 2 * (loc.idx - 1)
                   /\ \A i \in 1..(loc.idx - 1) :
                         /\ BatchEvents[2 * i - 1]
                               = Call("normalize_markdown",
                                      TextV(loc.files_data[i].content), TRUE)
                         /\ BatchEvents[2 * i].op = "notify"
                   /\ Done => loc.idx = Len(loc.files_data) + 1

C16_Witness ==
    /\ Done /\ clip.files = <<"B.md", "a.md">>
    /\ DataNames = <<"a.md", "B.md">>
    /\ loc.flow = "files_no_app" /\ Policy = "save"
    /\ [i \in 1..Len(Notes(calls)) |-> Key(Notes(calls)[i])]
          = <<"workflow.md_file.multiple_found", "workflow.md_file.saved",
              "workflow.md_file.saved", "workflow.md_file.batch_success">>

------------------------------------------------------------------------------
(* read_file_with_encoding: one attempt to open and decode the file per step *)

\* encodings = ["utf-8", "gbk", "gb2312", "utf-8-sig"]
encodings == <<"utf-8", "gbk", "gb2312", "utf-8-sig">>

\* what open(file_path, "r", encoding=encoding) and f.read() can do
OpenOutcomes == {"ok", "UnicodeDecodeError", "FileNotFoundError", "PermissionError"}

\* the text the bytes of the file decode to under an encoding
Decoded(file_path, encoding) == Val(<<encoding>>, <<file_path>>)

\* the except clauses of the loop catching decode errors only
ReadContinuesDecodeOnly(e) == e = "UnicodeDecodeError"

\* except UnicodeDecodeError: continue / except Exception: continue
ReadContinues(e) == e \in OpenOutcomes \ {"ok"}

InitReadFile ==
    /\ pc = "read_file"
    /\ loc = [file_path |-> "a.md", i |-> 1, content |-> NoneV, errors |-> <<>>]
    /\ exc = "none"
    /\ WorkflowIdle

\* one iteration of `for encoding in encodings`
OpenWithEncoding ==
    /\ pc = "read_file"
    /\ loc.i <= Len(encodings)
    /\ \E a \in OpenOutcomes :
          LET encoding == encodings[loc.i]
          IN  /\ calls' = calls \o <<Call("open", Val(<<encoding>>, <<loc.file_path>>),
                                          a = "ok")>>
              /\ IF a = "ok"
                 THEN /\ loc' = [loc EXCEPT !.content = Decoded(loc.file_path, encoding)]
                      /\ pc' = "returned"
                      /\ exc' = exc
                 ELSE IF ReadContinues(a)
                 THEN /\ loc' = [loc EXCEPT !.i = @ + 1, !.errors = Append(@, a)]
                      /\ pc' = pc
                      /\ exc' = exc
                 ELSE /\ loc' = loc
                      /\ pc' = "raised"
                      /\ exc' = a
    /\ UNCHANGED <<config, clip, pandoc_integration, escaped>>

\* the loop is exhausted: raise ClipboardError
RaiseClipboardError ==
    /\ pc = "read_file"
    /\ loc.i > Len(encodings)
    /\ pc' = "raised"
    /\ exc' = "ClipboardError"
    /\ UNCHANGED <<config, clip, loc, pandoc_integration, calls, escaped>>

NextReadFile == OpenWithEncoding \/ RaiseClipboardError

SpecReadFile == InitReadFile /\ [][NextReadFile]_vars

\* C18: read_file_with_encoding tries utf-8, gbk, gb2312, utf-8-sig in that
\* order; it returns the content decoded by the first attempt that succeeds and
\* tries no encoding after it; it raises exactly when all four attempts have
\* failed, by a decode error or by any other error, and what it raises is
\* ClipboardError.
C18_EncodingAttempts ==
    /\ Len(calls) <= 4
    /\ \A k \in 1..Len(calls) :
          /\ calls[k].op = "open"
          /\ calls[k].arg
                = Val(<<(<<"utf-8", "gbk", "gb2312", "utf-8-sig">>)[k]>>, <<loc.file_path>>)
          /\ calls[k].ok => k = Len(calls)
    /\ pc = "returned"
          <=> (calls # <<>> /\ calls[Len(calls)].ok)
    /\ pc = "returned"
          => /\ loc.content = Decoded(loc.file_path, calls[Len(calls)].arg.ops[1])
             /\ exc = "none"
    /\ pc = "raised"
          => (Len(calls) = 4 /\ \A k \in 1..4 : ~calls[k].ok)
    /\ (Len(calls) = 4 /\ \A k \in 1..4 : ~calls[k].ok)
          => \/ pc = "raised"
             \/ pc = "read_file" /\ loc.i = 5 /\ ENABLED RaiseClipboardError
    /\ (pc = "read_file" /\ loc.i <= 4) => Len(calls) = loc.i - 1
    /\ pc = "raised" => exc = "ClipboardError" /\ loc.content = NoneV
    /\ pc # "raised" => exc = "none"

C18_Witness ==
    /\ pc = "returned"
    /\ Len(calls) = 4
    /\ loc.errors = <<"UnicodeDecodeError", "UnicodeDecodeError", "PermissionError">>
    /\ loc.content = Decoded("a.md", "utf-8-sig")

------------------------------------------------------------------------------
(* get_clipboard_html and _extract_html_fragment on CF_HTML containers.      *)
(* A container is its header, the Key:Value lines before the payload, which  *)
(* counts for one ASCII character, followed by the characters of its         *)
(* payload; an anchor comment counts for one character.                      *)

StartAnchor == "<!--StartFragment-->"
EndAnchor == "<!--EndFragment-->"

\* characters of a payload: ASCII, two bytes in UTF-8, line break, anchors
BodyChars == {"a", "é", "\n", StartAnchor, EndAnchor}

Bodies == UNION {[1..k -> BodyChars] : k \in 0..MaxBody}

\* value of a header key: no such line, a text that str.isdigit() and int()
\* both reject (empty, "abc"), the digits of a number, or "-1", which
\* str.isdigit() rejects and int() accepts
Absent == [kind |-> "absent", n |-> 0]
NotDigits == [kind |-> "text", n |-> 0]
Digits(n) == [kind |-> "digits", n |-> n]
MinusOne == [kind |-> "negative", n |-> -1]

FragmentOffsets == {Absent, NotDigits} \cup {Digits(n) : n \in 0..MaxOffset}

\* UTF-8
RECURSIVE Encode(_)
Encode(text) ==
    IF text = <<>> THEN <<>>
    ELSE (IF Head(text) = "é" THEN <<"0xC3", "0xA9">> ELSE <<Head(text)>>)
         \o Encode(Tail(text))

\* data.decode("utf-8", errors="ignore")
RECURSIVE Decode(_)
Decode(data) ==
    IF data = <<>> THEN <<>>
    ELSE IF Head(data) = "0xC3"
    THEN (IF Len(data) > 1 /\ data[2] = "0xA9"
          THEN <<"é">> \o Decode(SubSeq(data, 3, Len(data)))
          ELSE Decode(Tail(data)))
    ELSE IF Head(data) = "0xA9" THEN Decode(Tail(data))
    ELSE <<Head(data)>> \o Decode(Tail(data))

\* the containers the clipboard can hold under "HTML Format"
Containers ==
    [meta : [StartFragment : FragmentOffsets, EndFragment : FragmentOffsets,
             StartHTML : {Absent, NotDigits, Digits(1), MinusOne},
             EndHTML : {Absent, NotDigits, Digits(2), MinusOne}],
     data : {Encode(<<"H">> \o b) : b \in Bodies}]

\* s[a:b] of Python for a, b >= 0
Slice(s, a, b) == SubSeq(s, a + 1, IF b < Len(s) THEN b ELSE Len(s))

\* a negative index of a Python slice counts from the end
Index(s, i) == IF i >= 0 THEN i ELSE IF Len(s) + i > 0 THEN Len(s) + i ELSE 0

\* sf and ef and sf.isdigit() and ef.isdigit()
UsableOffsets(meta) ==
    meta.StartFragment.kind = "digits" /\ meta.EndFragment.kind = "digits"

Positions(s, ch) == {i \in 1..Len(s) : s[i] = ch}

Min(S) == CHOOSE x \in S : \A y \in S : x <= y
Max(S) == CHOOSE x \in S : \A y \in S : x >= y

\* the pattern of the anchors with a lazy group: up to the first end anchor
AnchorMatchLazy(s) ==
    LET starts == Positions(s, StartAnchor)
        ends == {j \in Positions(s, EndAnchor) : starts # {} /\ j > Min(starts)}
    IN  IF starts = {} \/ ends = {}
        THEN [found |-> FALSE, group |-> <<>>]
        ELSE [found |-> TRUE, group |-> SubSeq(s, Min(starts) + 1, Min(ends) - 1)]

\* re.search(r"<!--StartFragment-->(.*)<!--EndFragment-->", cf_html, flags=re.S):
\* leftmost start anchor that has an end anchor after it, greedy group
AnchorMatch(s) ==
    LET starts == Positions(s, StartAnchor)
        ends == {j \in Positions(s, EndAnchor) : starts # {} /\ j > Min(starts)}
    IN  IF starts = {} \/ ends = {}
        THEN [found |-> FALSE, group |-> <<>>]
        ELSE [found |-> TRUE, group |-> SubSeq(s, Min(starts) + 1, Max(ends) - 1)]

\* result of the extractor: the fragment or the exception it raised
Extracted(fragment, e) == [fragment |-> fragment, exc |-> e]

\* _extract_html_fragment
_extract_html_fragment(meta, cf_html) ==
    LET m == AnchorMatch(cf_html)
        start_html == IF meta.StartHTML.kind = "absent" THEN 0
                      ELSE Index(cf_html, meta.StartHTML.n)
        end_html == IF meta.EndHTML.kind = "absent" THEN Len(cf_html)
                    ELSE Index(cf_html, meta.EndHTML.n)
    IN  IF UsableOffsets(meta)
        THEN Extracted(Slice(cf_html, meta.StartFragment.n, meta.EndFragment.n), "none")
        ELSE IF m.found THEN Extracted(m.group, "none")
        ELSE IF meta.StartHTML.kind = "text" \/ meta.EndHTML.kind = "text"
        THEN Extracted(<<>>, "ValueError")
        ELSE Extracted(Slice(cf_html, start_html, end_html), "none")

InitFragment ==
    /\ pc = "get_clipboard_html"
    /\ loc \in [container : Containers, cf_html : {<<>>}, fragment : {<<>>}]
    /\ exc = "none"
    /\ WorkflowIdle

\* get_clipboard_html, lines 135-149: decode the data, extract the fragment
ExtractHtmlFragment ==
    /\ pc = "get_clipboard_html"
    /\ LET cf_html == Decode(loc.container.data)
           r == _extract_html_fragment(loc.container.meta, cf_html)
       IN  /\ loc' = [loc EXCEPT !.cf_html = cf_html, !.fragment = r.fragment]
           /\ exc' = r.exc
           /\ pc' = "extracted"
    /\ UNCHANGED <<config, clip, pandoc_integration, calls, escaped>>

NextFragment == ExtractHtmlFragment

SpecFragment == InitFragment /\ [][NextFragment]_vars

\* the byte range [StartFragment, EndFragment) of the container
ByteRange ==
    SubSeq(loc.container.data, loc.container.meta.StartFragment.n + 1,
           loc.container.meta.EndFragment.n)

\* the declared offsets are in range and bound whole characters
OffsetsInRange ==
    /\ UsableOffsets(loc.container.meta)
    /\ loc.container.meta.StartFragment.n <= loc.container.meta.EndFragment.n
    /\ loc.container.meta.EndFragment.n <= Len(loc.container.data)
    /\ Encode(Decode(ByteRange)) = ByteRange

\* C19: when the header declares StartFragment and EndFragment as in-range
\* non-negative integers the extractor returns exactly the byte range
\* [StartFragment, EndFragment) of the container, also when multi-byte
\* characters precede or are inside the fragment, with or without anchors.
C19_OffsetsByteRange ==
    (pc = "extracted" /\ OffsetsInRange)
        => /\ exc = "none"
           /\ Encode(loc.fragment) = ByteRange

\* C20 as stated: a container without usable offsets that holds both anchor
\* comments yields the text strictly between a start and an end anchor.
C20_AsStated ==
    (pc = "extracted" /\ ~UsableOffsets(loc.container.meta)
        /\ Positions(loc.cf_html, StartAnchor) # {}
        /\ Positions(loc.cf_html, EndAnchor) # {})
        => /\ exc = "none"
           /\ \E i \in Positions(loc.cf_html, StartAnchor),
                 j \in Positions(loc.cf_html, EndAnchor) :
                 loc.fragment = SubSeq(loc.cf_html,
                                       (IF i < j THEN i ELSE j) + 1,
                                       (IF i < j THEN j ELSE i) - 1)

\* C20: a container without usable offsets (missing or not digits) in which a
\* start anchor is followed, anywhere later, by an end anchor yields exactly
\* the text between the first start anchor and the last end anchor, across
\* line breaks and with any further anchor comments in between left in place;
\* end anchors that only precede the start anchors are not used.
C20_AnchorFallback ==
    (pc = "extracted" /\ ~UsableOffsets(loc.container.meta))
        => LET starts == Positions(loc.cf_html, StartAnchor)
               ends == Positions(loc.cf_html, EndAnchor)
               paired == \E i \in starts, j \in ends : i < j
           IN  /\ paired
                    => /\ exc = "none"
                       /\ loc.fragment
                             = SubSeq(loc.cf_html, Min(starts) + 1, Max(ends) - 1)
               /\ (~paired /\ exc = "none")
                    => loc.fragment
                          = Slice(loc.cf_html,
                                  IF loc.container.meta.StartHTML = Absent THEN 0
                                  ELSE Index(loc.cf_html,
                                             loc.container.meta.StartHTML.n),
                                  IF loc.container.meta.EndHTML = Absent
                                  THEN Len(loc.cf_html)
                                  ELSE Index(loc.cf_html,
                                             loc.container.meta.EndHTML.n))

C20_Witness ==
    /\ pc = "extracted"
    /\ loc.container.meta.StartFragment = Digits(1)
    /\ loc.container.meta.EndFragment = NotDigits
    /\ loc.cf_html = <<"H", StartAnchor, EndAnchor, EndAnchor>>
    /\ loc.fragment = <<EndAnchor>>

\* C21: for a container with no usable fragment offsets and no anchor pair the
\* extractor never raises and returns a non-empty text: the span the header
\* declares with StartHTML and EndHTML, the whole container where it declares
\* none, a malformed (non-integer) StartHTML or EndHTML included.
C21_SpanFallback ==
    (pc = "extracted" /\ ~UsableOffsets(loc.container.meta)
        /\ ~AnchorMatch(loc.cf_html).found)
        => LET meta == loc.container.meta
           IN  /\ exc = "none"
               /\ loc.fragment # <<>>
               /\ (meta.StartHTML = Absent /\ meta.EndHTML = Absent)
                      => loc.fragment = loc.cf_html
               /\ (meta.StartHTML.kind = "digits" /\ meta.EndHTML.kind = "digits")
                      => loc.fragment
                            = SubSeq(loc.cf_html, meta.StartHTML.n + 1, meta.EndHTML.n)

------------------------------------------------------------------------------
(* Failures of the stages *)

\* number of notifications with the given key
CountNote(key) ==
    Cardinality({i \in 1..Len(calls) :
                    calls[i].op = "notify" /\ Key(calls[i]) = key})

\* C22: when the insertion into Word/WPS fails (the inserter raises
\* InsertError or returns false) the user gets exactly one "insert failed"
\* notification, a failing one, as the only outcome notification of the
\* invocation; there is no fallback: no no-target policy action runs and the
\* inserter is called once.
C22_InsertFailed ==
    (Done /\ loc.inserted = "false")
        => /\ CountNote("workflow.insert_failed_no_app") = 1
           /\ FileOutcomes = <<Notify("workflow.insert_failed_no_app", FALSE)>>
           /\ N(PolicyOps) = 0
           /\ N(DocInserters) = 1
           /\ N(Converters) = 1

C22_Witness ==
    /\ Done
    /\ loc.inserted = "false"
    /\ loc.flow = "html_word"
    /\ loc.target = "wps"
    /\ HasCall("wps_inserter.insert", FALSE)
    /\ Notes(calls) = <<Notify("workflow.insert_failed_no_app", FALSE)>>

\* keys of the "conversion failed" notifications
ConversionFailedKeys ==
    {"workflow.markdown.convert_failed", "workflow.html.convert_failed_format"}

\* positions of the converter calls that raised PandocError
FailedConversions ==
    {i \in 1..Len(calls) :
        /\ calls[i].op \in Converters
        /\ i < Len(calls)
        /\ calls[i + 1] = Call("raise", Val(<<"PandocError">>, <<>>), FALSE)}

\* position of the first notification after position i, 0 if there is none
NextNote(i) ==
    LET later == {j \in (i + 1)..Len(calls) : calls[j].op = "notify"}
    IN  IF later = {} THEN 0 ELSE Min(later)

\* the ops that insert, launch, copy or write a file
EffectOps ==
    DocInserters \cup SheetInserters \cup PolicyOps
    \cup {"write", "EphemeralFile.write_bytes"}

\* the item a position of the trace belongs to: every item starts with the
\* normalisation of its text
ItemOf(i) == Cardinality({j \in 1..i : calls[j].op = "normalize_markdown"})

\* the failed conversion at position i is followed by its outcome
\* notification with nothing done for the item in between
AbortsItem(i) ==
    /\ NextNote(i) # 0
    /\ ~calls[NextNote(i)].ok
    /\ \A j \in (i + 1)..NextNote(i) : calls[j].op \notin EffectOps \cup Converters

\* in a batch every file after the one of position i is converted and reported
BatchContinues(i) ==
    loc.flow = "files_no_app"
        => LET rest == Len(loc.files_data) - ItemOf(i)
           IN  /\ Cardinality({j \in (i + 1)..Len(calls) :
                                  calls[j].op \in Converters}) = rest
               /\ Cardinality({j \in (NextNote(i) + 1)..Len(calls) :
                                  /\ calls[j].op = "notify"
                                  /\ Key(calls[j]) # "workflow.md_file.batch_success"})
                     = rest

\* C23: a converter failure (PandocError) is reported with a failing
\* "conversion failed" notification, the converter is called at most once per
\* item, nothing is inserted, launched, copied or written for the failed item,
\* and in a batch of files every later file is still converted and reported.
C23_ConversionFailed ==
    Done => \A i \in FailedConversions :
                /\ AbortsItem(i)
                /\ Key(calls[NextNote(i)]) \in ConversionFailedKeys
                /\ N(Converters) <= Units
                /\ BatchContinues(i)

\* keys of the notifications of a successful insertion into Word/WPS
InsertSuccessKeys ==
    {"workflow.word.insert_success", "workflow.md_file.insert_success",
     "workflow.md_file.insert_success_multi", "workflow.html.insert_success"}

\* C24: when keep_file is on and the write of the durable copy fails after a
\* successful insertion into Word/WPS, the invocation still ends with the
\* succeeding "inserted" notification as its only outcome and no exception
\* reaches execute(), in the Markdown flow and in the HTML flow; the Markdown
\* flow adds its "save failed" warning, the HTML flow reports nothing more.
C24_BestEffortPersistence ==
    (Done /\ loc.inserted = "true" /\ HasCall("write", FALSE))
        => /\ HasRead("keep_file") /\ config.keep_file
           /\ Len(FileOutcomes) = 1
           /\ FileOutcomes[1].ok
           /\ Key(FileOutcomes[1]) \in InsertSuccessKeys
           /\ calls[Len(calls)] = FileOutcomes[1]
           /\ ~HasNote("workflow.generic.failure")
           /\ ~HasNote("workflow.html.convert_failed_generic")
           /\ escaped = "none"
           /\ HasNote("workflow.document.save_failed") <=> loc.flow = "word"

C24_Witness ==
    /\ Done
    /\ loc.flow = "html_word"
    /\ loc.inserted = "true"
    /\ config.keep_file
    /\ HasCall("word_inserter.insert", TRUE)
    /\ HasCall("write", FALSE)
    /\ Notes(calls) = <<Notify("workflow.html.insert_success", TRUE)>>

------------------------------------------------------------------------------
(* NotificationManager: the bounded queue between notify() and the worker    *)
(* thread. Every operation of queue.Queue is atomic (it holds the mutex of   *)
(* the queue); the threads interleave between two operations.                *)

\* max_queue
MaxQueue == 2

\* number of notify() calls of a behaviour
MaxNotifications == MaxQueue + 2

\* the threads that call notify(): two invocations of the workflow
NotifyCallers == {"caller1", "caller2"}

Notifications == 1..MaxNotifications

\* put / put_nowait: the queue holds max_queue entries
Full(q) == Len(q) >= MaxQueue

\* task_done(): ValueError when called more often than items were put
TaskDone(unfinished) ==
    IF unfinished = 0 THEN [unfinished |-> 0, exc |-> "ValueError"]
    ELSE [unfinished |-> unfinished - 1, exc |-> "none"]

InitNotify ==
    /\ pc = [t \in NotifyCallers \cup {"worker"} |-> IF t = "worker" THEN "loop" ELSE "idle"]
    /\ config = [notify |-> TRUE]
    /\ loc = [q |-> <<>>, unfinished |-> 0, stop |-> FALSE, next |-> 1,
              msg |-> [c \in NotifyCallers |-> 0], item |-> 0,
              status |-> [m \in Notifications |-> "none"]]
    /\ exc = "none"
    /\ clip = [text |-> "", files |-> <<>>]
    /\ pandoc_integration = "None"
    /\ calls = <<>>
    /\ escaped = "none"

\* notify(): log, then the test of config "notify"
NotifyEnter(c) ==
    /\ pc[c] = "idle"
    /\ loc.next <= MaxNotifications
    /\ IF config.notify
       THEN /\ pc' = [pc EXCEPT ![c] = "put"]
            /\ loc' = [loc EXCEPT !.msg[c] = loc.next, !.next = @ + 1,
                                  !.status[loc.next] = "new"]
       ELSE /\ pc' = pc
            /\ loc' = [loc EXCEPT !.next = @ + 1, !.status[loc.next] = "disabled"]
    /\ UNCHANGED <<config, clip, pandoc_integration, calls, exc, escaped>>

\* self._q.put(item, block=False)
NotifyPut(c) ==
    /\ pc[c] = "put"
    /\ IF Full(loc.q)
       THEN /\ pc' = [pc EXCEPT ![c] = "get_nowait"]
            /\ loc' = loc
       ELSE /\ pc' = [pc EXCEPT ![c] = "idle"]
            /\ loc' = [loc EXCEPT !.q = Append(@, loc.msg[c]),
                                  !.unfinished = @ + 1,
                                  !.status[loc.msg[c]] = "queued",
                                  !.msg[c] = 0]
    /\ UNCHANGED <<config, clip, pandoc_integration, calls, exc, escaped>>

\* except queue.Full: self._q.get_nowait(), an Empty is passed over
NotifyDropOldest(c) ==
    /\ pc[c] = "get_nowait"
    /\ pc' = [pc EXCEPT ![c] = "put_nowait"]
    /\ loc' = IF loc.q = <<>> THEN loc
              ELSE [loc EXCEPT !.q = Tail(@), !.status[Head(loc.q)] = "dropped"]
    /\ UNCHANGED <<config, clip, pandoc_integration, calls, exc, escaped>>

\* self._q.put_nowait(item), a Full is passed over: notify() returns
NotifyPutNowait(c) ==
    /\ pc[c] = "put_nowait"
    /\ pc' = [pc EXCEPT ![c] = "idle"]
    /\ loc' = IF Full(loc.q)
              THEN [loc EXCEPT !.status[loc.msg[c]] = "lost", !.msg[c] = 0]
              ELSE [loc EXCEPT !.q = Append(@, loc.msg[c]),
                               !.unfinished = @ + 1,
                               !.status[loc.msg[c]] = "queued",
                               !.msg[c] = 0]
    /\ UNCHANGED <<config, clip, pandoc_integration, calls, exc, escaped>>

\* the user switches notifications on or off in the settings
SetNotify ==
    /\ config' = [notify |-> ~config.notify]
    /\ UNCHANGED <<pc, clip, loc, pandoc_integration, calls, exc, escaped>>

\* shutdown(): self._stop.set()
Shutdown ==
    /\ ~loc.stop
    /\ loc' = [loc EXCEPT !.stop = TRUE]
    /\ UNCHANGED <<pc, config, clip, pandoc_integration, calls, exc, escaped>>

\* _worker_loop: while not self._stop.is_set(), then the test of config "notify"
WorkerLoop ==
    /\ pc["worker"] = "loop"
    /\ pc' = [pc EXCEPT !["worker"] = IF loc.stop THEN "stopped"
                                      ELSE IF ~config.notify THEN "drain"
                                      ELSE "get"]
    /\ UNCHANGED <<config, clip, loc, pandoc_integration, calls, exc, escaped>>

\* while not self._q.empty()
WorkerDrainCheck ==
    /\ pc["worker"] = "drain"
    /\ pc' = [pc EXCEPT !["worker"] = IF loc.q = <<>> THEN "loop" ELSE "drain_get"]
    /\ UNCHANGED <<config, clip, loc, pandoc_integration, calls, exc, escaped>>

\* get_nowait() with an Empty passed over, finally task_done()
WorkerDrainGet ==
    /\ pc["worker"] = "drain_get"
    /\ LET d == TaskDone(loc.unfinished)
           l == [loc EXCEPT !.unfinished = d.unfinished]
       IN  /\ loc' = IF loc.q = <<>> THEN l
                     ELSE [l EXCEPT !.q = Tail(@), !.status[Head(loc.q)] = "drained"]
           /\ exc' = d.exc
           /\ pc' = [pc EXCEPT !["worker"] = IF d.exc = "none" THEN "drain" ELSE "died"]
    /\ UNCHANGED <<config, clip, pandoc_integration, calls, escaped>>

\* self._q.get(timeout=0.25): the oldest entry, or Empty after the timeout
WorkerGet ==
    /\ pc["worker"] = "get"
    /\ IF loc.q = <<>>
       THEN /\ pc' = [pc EXCEPT !["worker"] = "loop"]
            /\ loc' = loc
       ELSE /\ pc' = [pc EXCEPT !["worker"] = "send"]
            /\ loc' = [loc EXCEPT !.q = Tail(@), !.item = Head(loc.q),
                                  !.status[Head(loc.q)] = "taken"]
    /\ UNCHANGED <<config, clip, pandoc_integration, calls, exc, escaped>>

\* self._send_one(title, message), finally task_done()
WorkerSendOne ==
    /\ pc["worker"] = "send"
    /\ LET d == TaskDone(loc.unfinished)
       IN  /\ loc' = [loc EXCEPT !.unfinished = d.unfinished, !.item = 0,
                                 !.status[loc.item] = "sent"]
           /\ exc' = d.exc
           /\ pc' = [pc EXCEPT !["worker"] = IF d.exc = "none" THEN "loop" ELSE "died"]
    /\ UNCHANGED <<config, clip, pandoc_integration, calls, escaped>>

NextNotify ==
    \/ \E c \in NotifyCallers : NotifyEnter(c)
    \/ \E c \in NotifyCallers : NotifyPut(c)
    \/ \E c \in NotifyCallers : NotifyDropOldest(c)
    \/ \E c \in NotifyCallers : NotifyPutNowait(c)
    \/ SetNotify
    \/ Shutdown
    \/ WorkerLoop
    \/ WorkerDrainCheck
    \/ WorkerDrainGet
    \/ WorkerGet
    \/ WorkerSendOne

SpecNotify == InitNotify /\ [][NextNotify]_vars

\* C25: notify() never blocks and never raises, and on overflow it is the
\* oldest pending notification that is dropped: the notification of a call
\* that found the queue full is enqueued, never lost, under every
\* interleaving of the notify() callers and the worker.
C25_OverflowDropsOldest ==
    /\ \A c \in NotifyCallers :
          pc[c] # "idle"
             => ENABLED (NotifyPut(c) \/ NotifyDropOldest(c) \/ NotifyPutNowait(c))
    /\ \A m \in Notifications : loc.status[m] # "lost"

------------------------------------------------------------------------------
(* app_state.config during an invocation of execute(). `config` is the dict  *)
(* app_state.config refers to; the local `config` of execute() refers to the *)
(* same dict (line 54) until app_state.config is bound to another dict.      *)

\* number of changes of the settings during one invocation
MaxChanges == 2

ConfigKeys == {"enable_excel", "keep_file", "move_cursor_to_end", "notify", "pandoc_path"}

\* "custom": the path the user configured; "pandoc": DEFAULT_CONFIG["pandoc_path"]
SharedConfigs ==
    [enable_excel : BOOLEAN, keep_file : BOOLEAN, move_cursor_to_end : BOOLEAN,
     notify : BOOLEAN, pandoc_path : {"custom", "pandoc"}]

ValuesOf(k) == IF k = "pandoc_path" THEN {"custom", "pandoc"} ELSE BOOLEAN

\* locals of the invocation: `start` is app_state.config when execute() was
\* entered, `read` and `used` the keys read and the values they gave, `local`
\* the dict of the local `config` once it is no longer app_state.config,
\* `wrote` whether the invocation assigned to app_state.config
LocConfig(cfg, target) ==
    [target |-> target, start |-> cfg, alias |-> TRUE, local |-> cfg,
     read |-> {}, used |-> cfg, wrote |-> FALSE, changes |-> 0]

\* config.get(key): the local name of execute()
LocalGet(k) == IF loc.alias THEN config[k] ELSE loc.local[k]

\* app_state.config.get(key)
SharedGet(k) == config[k]

Use(l, k, v) == [l EXCEPT !.read = @ \cup {k}, !.used[k] = v]

InitConfig ==
    /\ pc = "idle"
    /\ config \in SharedConfigs
    /\ loc = LocConfig(config, "")
    /\ pandoc_integration = "None"
    /\ exc = "none"
    /\ clip = [text |-> "", files |-> <<>>]
    /\ calls = <<>>
    /\ escaped = "none"

\* line 54: config = app_state.config, with text on the clipboard and a
\* Word/WPS or spreadsheet window focused
ExecuteEnter ==
    /\ pc = "idle"
    /\ \E target \in {"word", "wps", "excel", "wps_excel"} :
          /\ loc' = LocConfig(config, target)
          /\ pc' = IF target \in {"excel", "wps_excel"} THEN "route" ELSE "ensure"
    /\ UNCHANGED <<config, clip, pandoc_integration, calls, exc, escaped>>

\* line 90: target in ("excel", "wps_excel") and config.get("enable_excel", True)
RouteSpreadsheet ==
    /\ pc = "route"
    /\ loc' = Use(loc, "enable_excel", LocalGet("enable_excel"))
    /\ pc' = "notify"
    /\ UNCHANGED <<config, clip, pandoc_integration, calls, exc, escaped>>

\* _handle_word_flow, line 448: self._ensure_pandoc_integration()
EnsurePandocIntegration ==
    /\ pc = "ensure"
    /\ IF pandoc_integration = "ready"
       THEN /\ pc' = "insert"
            /\ UNCHANGED <<config, loc, pandoc_integration>>
       ELSE \E init \in InitOutcomes :
               LET r == _ensure_pandoc_integration(<<>>, pandoc_integration, init)
                   l == Use(loc, "pandoc_path", SharedGet("pandoc_path"))
                   writes == \E i \in 1..Len(r.calls) : r.calls[i].op = "config_write"
               IN  /\ pandoc_integration' = r.pandoc
                   /\ pc' = IF r.pandoc = "ready" THEN "insert" ELSE "notify"
                   /\ config' = IF writes THEN [config EXCEPT !.pandoc_path = "pandoc"]
                                 ELSE config
                   /\ loc' = IF writes THEN [l EXCEPT !.wrote = TRUE] ELSE l
    /\ UNCHANGED <<clip, calls, exc, escaped>>

\* _perform_word_insertion: app_state.config.get("move_cursor_to_end", True)
PerformWordInsertion ==
    /\ pc = "insert"
    /\ loc' = Use(loc, "move_cursor_to_end", SharedGet("move_cursor_to_end"))
    /\ pc' = "keep_file"
    /\ UNCHANGED <<config, clip, pandoc_integration, calls, exc, escaped>>

\* _handle_word_flow, line 481: if config.get("keep_file", False)
KeepFile ==
    /\ pc = "keep_file"
    /\ loc' = Use(loc, "keep_file", LocalGet("keep_file"))
    /\ pc' = "notify"
    /\ UNCHANGED <<config, clip, pandoc_integration, calls, exc, escaped>>

\* notify(): app_state.config.get("notify", True)
NotifyResult ==
    /\ pc = "notify"
    /\ loc' = Use(loc, "notify", SharedGet("notify"))
    /\ pc' = "returned"
    /\ UNCHANGED <<config, clip, pandoc_integration, calls, exc, escaped>>

ExecuteReturn ==
    /\ pc = "returned"
    /\ pc' = "idle"
    /\ loc' = LocConfig(config, "")
    /\ UNCHANGED <<config, clip, pandoc_integration, calls, exc, escaped>>

\* another thread assigns app_state.config[k] = v while execute() runs
ChangeInPlace ==
    /\ pc \notin {"idle", "returned"}
    /\ loc.changes < MaxChanges
    /\ \E k \in ConfigKeys : \E v \in ValuesOf(k) \ {config[k]} :
          config' = [config EXCEPT ![k] = v]
    /\ loc' = [loc EXCEPT !.changes = @ + 1]
    /\ UNCHANGED <<pc, clip, pandoc_integration, calls, exc, escaped>>

\* another thread binds app_state.config to a new dict while execute() runs
Rebind ==
    /\ pc \notin {"idle", "returned"}
    /\ loc.changes < MaxChanges
    /\ \E k \in ConfigKeys : \E v \in ValuesOf(k) \ {config[k]} :
          config' = [config EXCEPT ![k] = v]
    /\ loc' = [loc EXCEPT !.changes = @ + 1, !.alias = FALSE,
                          !.local = IF loc.alias THEN config ELSE @]
    /\ UNCHANGED <<pc, clip, pandoc_integration, calls, exc, escaped>>

NextConfig ==
    \/ ExecuteEnter
    \/ RouteSpreadsheet
    \/ EnsurePandocIntegration
    \/ PerformWordInsertion
    \/ KeepFile
    \/ NotifyResult
    \/ ExecuteReturn
    \/ ChangeInPlace
    \/ Rebind

SpecConfig == InitConfig /\ [][NextConfig]_vars

\* C26: the configuration is a snapshot taken when execute() starts: every
\* value the invocation uses (enable_excel, keep_file, move_cursor_to_end,
\* pandoc_path, notify) is the value of that moment whatever is changed
\* meanwhile, and the invocation does not write the shared configuration.
C26_ConfigSnapshot ==
    pc # "idle"
       => /\ \A k \in loc.read : loc.used[k] = loc.start[k]
          /\ ~loc.wrote

------------------------------------------------------------------------------
(* The clipboard during an invocation of execute(): `clip` is what the       *)
(* clipboard holds now, its text and the kind of its rich-text fragment;     *)
(* another process may set the clipboard between two reads of execute().     *)

\* number of times another process sets the clipboard during one invocation
MaxClipboardChanges == 2

HtmlKinds == {"none", "rich", "plain"}

Clipboards == [text : ClipTexts, html : HtmlKinds]

\* locals of execute(); `at_test` is the clipboard at the test of line 57
LocClipboard ==
    [at_test |-> [text |-> "", html |-> "none"], is_html |-> FALSE,
     html_text |-> "none", should_use_html |-> FALSE, target |-> "",
     md_text |-> "", flow |-> "", changes |-> 0]

InitClipboard ==
    /\ pc = "idle"
    /\ clip \in Clipboards
    /\ loc = LocClipboard
    /\ config = NothingRead
    /\ pandoc_integration = "None"
    /\ calls = <<>>
    /\ exc = "none"
    /\ escaped = "none"

\* line 57: if not is_clipboard_empty(); an empty clipboard leads to the files
IsClipboardEmpty ==
    /\ pc = "idle"
    /\ loc' = [LocClipboard EXCEPT !.at_test = clip]
    /\ pc' = IF is_clipboard_empty(clip.text, "ok") THEN "files" ELSE "is_html"
    /\ UNCHANGED <<config, clip, pandoc_integration, calls, exc, escaped>>

\* line 60: is_html = is_clipboard_html()
IsClipboardHtml ==
    /\ pc = "is_html"
    /\ loc' = [loc EXCEPT !.is_html = (clip.html # "none")]
    /\ pc' = IF clip.html # "none" THEN "get_html" ELSE "detect"
    /\ UNCHANGED <<config, clip, pandoc_integration, calls, exc, escaped>>

\* lines 64-75: html_text = get_clipboard_html(config), ClipboardError when
\* the format is no longer there
GetClipboardHtml ==
    /\ pc = "get_html"
    /\ loc' = IF clip.html = "none" THEN [loc EXCEPT !.is_html = FALSE]
              ELSE [loc EXCEPT !.html_text = clip.html,
                               !.should_use_html = ShouldUseHtml(clip.html = "plain")]
    /\ pc' = "detect"
    /\ UNCHANGED <<config, clip, pandoc_integration, calls, exc, escaped>>

\* line 79: target = detect_active_app(), then the choice of line 83
DetectTarget ==
    /\ pc = "detect"
    /\ \E t \in {"word", ""} :
          /\ loc' = [loc EXCEPT !.target = t,
                                !.flow = IF loc.should_use_html /\ t = "word"
                                         THEN "html_word" ELSE @]
          /\ pc' = IF loc.should_use_html /\ t = "word" THEN "flow" ELSE "get_text"
    /\ UNCHANGED <<config, clip, pandoc_integration, calls, exc, escaped>>

\* line 88: md_text = get_clipboard_text()
GetClipboardText ==
    /\ pc = "get_text"
    /\ loc' = [loc EXCEPT !.md_text = clip.text,
                          !.flow = RouteText(loc.should_use_html, loc.target, TRUE)]
    /\ pc' = "flow"
    /\ UNCHANGED <<config, clip, pandoc_integration, calls, exc, escaped>>

\* another process sets the clipboard while execute() runs
SetClipboard ==
    /\ pc \in {"is_html", "get_html", "detect", "get_text"}
    /\ loc.changes < MaxClipboardChanges
    /\ clip' \in Clipboards \ {clip}
    /\ loc' = [loc EXCEPT !.changes = @ + 1]
    /\ UNCHANGED <<pc, config, pandoc_integration, calls, exc, escaped>>

NextClipboard ==
    \/ IsClipboardEmpty
    \/ IsClipboardHtml
    \/ GetClipboardHtml
    \/ DetectTarget
    \/ GetClipboardText
    \/ SetClipboard

SpecClipboard == InitClipboard /\ [][NextClipboard]_vars

\* C27: the clipboard is captured once per invocation: the text handed to the
\* flow is the text that was tested non-blank, and the rich-text fragment the
\* invocation uses is the one the clipboard held at that moment, also when
\* another process changes the clipboard meanwhile.
C27_CapturedOnce ==
    pc = "flow"
       => /\ loc.flow # "html_word" => loc.md_text = loc.at_test.text
          /\ loc.html_text = loc.at_test.html

------------------------------------------------------------------------------
(* execute() as a function of the clipboard, the focused application, the    *)
(* configuration, the answers of the collaborators and the converter the     *)
(* workflow object holds from earlier invocations.                           *)

\* what an invocation did: the flow it chose, its trace, the converter it leaves
Outcome(flow, r, p) ==
    [flow |-> flow,
     calls |-> IF r.exc = "none" THEN r.calls
               ELSE r.calls \o <<Notify(ExecuteHandlerKey(r.exc), FALSE)>>,
     pandoc |-> IF flow = "excel" THEN p ELSE r.pandoc]

NoRun == [flow |-> "", calls |-> <<>>, pandoc |-> ""]

\* the rich-text fragment of kind h after cleaning
HtmlText(h) ==
    IF h = "none" THEN NoneV
    ELSE Val(<<"clean_html_content", "_extract_html_fragment">>, <<h>>)

\* lines 57-103: the clipboard holds text
ExecuteText(in, p) ==
    LET should_use_html == in.h # "none" /\ ShouldUseHtml(in.h = "plain")
        flow == RouteText(should_use_html, in.target, in.cfg.enable_excel)
        md_text == TextV(in.text)
    IN  Outcome(flow,
                CASE flow = "html_word" ->
                        _handle_html_to_word_flow(<<>>, p, HtmlText(in.h), in.target,
                                                  in.cfg.keep_file, in.o)
                  [] flow = "word" ->
                        _handle_word_flow(<<>>, p, md_text, in.target, FALSE, 1,
                                          in.cfg.keep_file, in.o)
                  [] flow = "excel" ->
                        _handle_excel_flow(<<>>, md_text, in.target, in.o.ins)
                  [] OTHER ->
                        _handle_no_app_flow(<<>>, p, md_text, in.cfg, should_use_html,
                                            IF should_use_html THEN HtmlText(in.h)
                                            ELSE NoneV, in.o),
                p)

\* the loop of _handle_md_files_no_app_flow from file i on
RECURSIVE ProcessMdFiles(_, _, _, _, _, _)
ProcessMdFiles(c, p, cfg, files_data, os, i) ==
    IF i > Len(files_data) THEN Res(c, "none", p)
    ELSE LET r == ProcessMdFile(c, p, cfg.no_app_action, files_data[i].content,
                                cfg.keep_file, os[i])
         IN  ProcessMdFiles(r.calls, r.pandoc, cfg, files_data, os, i + 1)

\* _handle_md_files_no_app_flow; every generator returns normally
_handle_md_files_no_app_flow(c, p, cfg, files_data, os) ==
    IF cfg.no_app_action = "none"
    THEN Res(c \o <<Notify("workflow.no_app_detected", FALSE)>>, "none", p)
    ELSE LET r == ProcessMdFiles(c, p, cfg, files_data, os, 1)
         IN  IF BatchSuccess(Len(files_data), Len(files_data))
             THEN Res(r.calls \o <<Notify("workflow.md_file.batch_success", TRUE)>>,
                      "none", r.pandoc)
             ELSE r

\* lines 104-132: the clipboard holds no text
ExecuteFiles(in, p) ==
    LET f == _try_read_clipboard_md_files(<<>>, in.files, {})
        flow == RouteFiles(in.target, in.cfg.enable_excel)
    IN  IF ~f.found
        THEN [flow |-> "", pandoc |-> p,
              calls |-> f.calls \o <<Notify("workflow.clipboard.empty", FALSE)>>]
        ELSE Outcome(flow,
                     CASE flow = "word" ->
                             _handle_word_flow(f.calls, p,
                                               _merge_md_contents(f.files_data),
                                               in.target, TRUE, Len(f.files_data),
                                               in.cfg.keep_file, in.o)
                       [] flow = "excel" ->
                             _handle_excel_flow(f.calls, TextV(f.files_data[1].content),
                                                in.target, in.o.ins)
                       [] OTHER ->
                             _handle_md_files_no_app_flow(f.calls, p, in.cfg,
                                                          f.files_data, in.os),
                     p)

\* execute()
execute(in, p) ==
    IF is_clipboard_empty(in.text, "ok") THEN ExecuteFiles(in, p)
    ELSE ExecuteText(in, p)

\* the answers the collaborators of a flow give; the same call gets the same
\* answer, so the converter initialises alike for every file
RouteAnswers(flow, cfg, sheet) ==
    CASE flow \in {"word", "html_word"} -> WordAnswers("None", cfg.keep_file)
      [] flow = "excel" -> [ins : InsertOutcomes, init : {"ok"}]
      [] flow = "no_app" -> NoAppAnswers("None", cfg.no_app_action, sheet)
      [] OTHER -> [init : InitOutcomes]

FileAnswers(flow, cfg, init, n) ==
    IF flow = "files_no_app"
    THEN [1..n -> {o \in NoAppAnswers("None", cfg.no_app_action, FALSE) :
                      o.init \in {init, "ok"}
                      /\ (cfg.no_app_action # "none" => o.init = init)}]
    ELSE {<<>>}

InitRoute ==
    /\ pc = "execute"
    /\ \E text \in ClipTexts \ {"ws"}, h \in {"none", "rich", "plain"},
          target \in Targets, cfg \in Configs, files \in FileSeqs(MaxFiles) :
          LET empty == is_clipboard_empty(text, "ok")
              md == get_markdown_files_from_clipboard(files)
              flow == IF empty THEN RouteFiles(target, cfg.enable_excel)
                      ELSE RouteText(h = "rich", target, cfg.enable_excel)
              sheet == /\ h # "rich"
                       /\ parse_markdown_table(TextV(text)) # NoneV
                       /\ cfg.enable_excel
          IN  /\ empty => h = "none"
              /\ ~empty => files = <<>>
              /\ \E o \in RouteAnswers(flow, cfg, sheet) :
                 \E os \in FileAnswers(flow, cfg, o.init, Len(md)) :
                    loc = [in |-> [text |-> text, h |-> h, target |-> target,
                                   cfg |-> cfg, files |-> files, o |-> o, os |-> os],
                           init |-> o.init, fresh |-> NoRun, used |-> NoRun]
    /\ exc = "none"
    /\ WorkflowIdle

\* the invocation on a workflow object that was never used and on one that
\* holds the converter of an earlier invocation
ExecuteTwice ==
    /\ pc = "execute"
    /\ loc' = [loc EXCEPT !.fresh = execute(loc.in, "None"),
                          !.used = execute(loc.in, "ready")]
    /\ pc' = "executed"
    /\ UNCHANGED <<config, clip, pandoc_integration, calls, exc, escaped>>

NextRoute == ExecuteTwice

SpecRoute == InitRoute /\ [][NextRoute]_vars

\* the succeeded values of the notifications of a trace
RECURSIVE Succeeded(_)
Succeeded(s) ==
    IF s = <<>> THEN <<>>
    ELSE (IF Head(s).op = "notify" THEN <<Head(s).ok>> ELSE <<>>)
         \o Succeeded(Tail(s))

\* C28: routing is deterministic: with the same clipboard content, target,
\* policy and configuration and collaborators that answer alike, an invocation
\* on a workflow object that was never used and one on an object that already
\* handled an invocation choose the same flow and report the same succeeded
\* values. An object whose converter initialisation failed holds no converter
\* and initialises again like a fresh one; an object holds a converter only
\* when the initialisation, asked again, succeeds or falls back.
C28_Deterministic ==
    (pc = "executed" /\ loc.init # "fail")
        => /\ loc.fresh.flow = loc.used.flow
           /\ Succeeded(loc.fresh.calls) = Succeeded(loc.used.calls)

C28_Witness ==
    /\ pc = "executed"
    /\ loc.init = "fallback"
    /\ loc.fresh.flow = "word"
    /\ loc.fresh.calls # loc.used.calls
    /\ \E i \in 1..Len(loc.fresh.calls) : loc.fresh.calls[i].op = "config_write"
    /\ Succeeded(loc.used.calls) = <<TRUE>>

------------------------------------------------------------------------------
(* Transient files                                                           *)

\* the operations that leave a file at the path they are given
FileCreations == FileWrites \cup {"generate_spreadsheet"}

\* a path in the temporary directory: the file of an EphemeralFile or an
\* output path generated with keep_file off
Transient(path) ==
    /\ path.ops # <<>>
    /\ Head(path.ops) \in {"EphemeralFile", PathOp(FALSE)}

\* the file created by call i is deleted later in the invocation
DeletedAfter(i) ==
    \E j \in (i + 1)..Len(calls) :
        /\ calls[j].op = "EphemeralFile.delete"
        /\ calls[j].arg = calls[i].arg

\* the file written for the insertion into Word/WPS is deleted on every exit
EphemeralDeleted ==
    Done => \A i \in 1..Len(calls) :
                calls[i].op = "EphemeralFile.write_bytes" => DeletedAfter(i)

\* C29: when execute() returns, no transient file of the invocation exists
\* any more: the file written for the insertion into Word/WPS is deleted
\* whether the insertion succeeded, returned false or raised, and every other
\* output file created in the temporary directory (keep_file off) is deleted
\* before the invocation ends.
C29_TransientDeleted ==
    Done => \A i \in 1..Len(calls) :
                (calls[i].op \in FileCreations /\ calls[i].ok
                 /\ Transient(calls[i].arg))
                    => DeletedAfter(i)

------------------------------------------------------------------------------
(* The retry loops of the clipboard reads: is_clipboard_html,                *)
(* get_clipboard_html and get_clipboard_files open the clipboard in          *)
(* "for _ in range(3)".                                                      *)

\* range(3)
OpenAttempts == 3

ClipboardReads == {"is_clipboard_html", "get_clipboard_html", "get_clipboard_files"}

\* the state of one read: the operation, the API it uses, the iterations
\* begun, the calls of OpenClipboard and how many of them succeeded, what the
\* body of the iteration decided, the data kept and the result
LocRead(op) ==
    [op |-> op, api |-> "wc", attempt |-> 0, opens |-> 0, opened |-> 0,
     pending |-> "none", data |-> "unset", result |-> "none"]

InitOpen ==
    /\ \E op \in ClipboardReads :
          /\ loc = LocRead(op)
          /\ pc = IF op = "get_clipboard_files" THEN "loop" ELSE "register"
    /\ exc = "none"
    /\ WorkflowIdle

\* where the loop goes after an iteration that neither returned nor broke
NextIteration(attempt) == IF attempt < OpenAttempts THEN "loop" ELSE "after"

\* fmt = wc.RegisterClipboardFormat("HTML Format"); when it raises,
\* is_clipboard_html falls back to ctypes (a format of 0 returns False) and
\* get_clipboard_html raises ClipboardError
RegisterClipboardFormat ==
    /\ pc = "register"
    /\ \/ /\ pc' = "loop"
          /\ loc' = loc
       \/ /\ loc.op = "is_clipboard_html"
          /\ \E fmt \in BOOLEAN :
                IF fmt THEN /\ pc' = "loop"
                            /\ loc' = [loc EXCEPT !.api = "ctypes"]
                ELSE /\ pc' = "returned"
                     /\ loc' = [loc EXCEPT !.api = "ctypes", !.result = "False"]
       \/ /\ loc.op = "get_clipboard_html"
          /\ pc' = "returned"
          /\ loc' = [loc EXCEPT !.result = "ClipboardError"]
    /\ UNCHANGED <<config, clip, pandoc_integration, calls, exc, escaped>>

\* wc.OpenClipboard() at the head of an iteration; a failure sleeps 0.03 s
\* and goes to the next iteration
OpenClipboard ==
    /\ pc = "loop"
    /\ loc.attempt < OpenAttempts
    /\ \E ok \in BOOLEAN :
          /\ loc' = [loc EXCEPT !.attempt = @ + 1, !.opens = @ + 1,
                                !.opened = IF ok THEN @ + 1 ELSE @]
          /\ pc' = IF ok THEN "opened" ELSE NextIteration(loc.attempt + 1)
    /\ UNCHANGED <<config, clip, pandoc_integration, calls, exc, escaped>>

\* the body under the open clipboard: is_clipboard_html returns what
\* IsClipboardFormatAvailable says; the two reads take the data and break
\* when the format is there and fall through to the next iteration when it
\* is not; the pywin32 calls may raise
ReadFormat ==
    /\ pc = "opened"
    /\ \/ \E avail \in BOOLEAN :
             IF loc.op = "is_clipboard_html"
             THEN loc' = [loc EXCEPT !.pending = "return",
                                     !.result = IF avail THEN "True" ELSE "False"]
             ELSE IF avail
             THEN \E d \in {"data", "empty"} :
                     loc' = [loc EXCEPT !.pending = "break", !.data = d]
             ELSE loc' = [loc EXCEPT !.pending = "continue"]
       \/ /\ loc.api = "wc"
          /\ loc' = [loc EXCEPT !.pending = "raise"]
    /\ pc' = "close"
    /\ UNCHANGED <<config, clip, pandoc_integration, calls, exc, escaped>>

\* finally: wc.CloseClipboard(); an exception of the body or of the close is
\* caught by the except of the iteration, which sleeps and goes on
CloseClipboard ==
    /\ pc = "close"
    /\ \E closed \in (IF loc.api = "wc" THEN BOOLEAN ELSE {TRUE}) :
          LET p == IF closed THEN loc.pending ELSE "raise"
          IN  /\ pc' = CASE p = "return" -> "returned"
                         [] p = "break" -> "after"
                         [] OTHER -> NextIteration(loc.attempt)
              /\ loc' = [loc EXCEPT !.pending = "none",
                                    !.result = IF p = "return" THEN @ ELSE "none"]
    /\ UNCHANGED <<config, clip, pandoc_integration, calls, exc, escaped>>

\* after the loop: is_clipboard_html returns False, get_clipboard_files
\* returns file_paths, get_clipboard_html raises ClipboardError without data
\* and when the extraction or the cleaning raises
AfterLoop ==
    /\ pc = "after"
    /\ \E r \in CASE loc.op = "is_clipboard_html" -> {"False"}
                  [] loc.op = "get_clipboard_files" ->
                        {IF loc.data = "data" THEN "files" ELSE "[]"}
                  [] OTHER ->
                        IF loc.data = "data" THEN {"html", "ClipboardError"}
                        ELSE {"ClipboardError"} :
          loc' = [loc EXCEPT !.result = r]
    /\ pc' = "returned"
    /\ UNCHANGED <<config, clip, pandoc_integration, calls, exc, escaped>>

NextOpen ==
    \/ RegisterClipboardFormat
    \/ OpenClipboard
    \/ ReadFormat
    \/ CloseClipboard
    \/ AfterLoop

SpecOpen == InitOpen /\ [][NextOpen]_vars

\* what a read answers when it gives up
GiveUp(op) ==
    CASE op = "is_clipboard_html" -> "False"
      [] op = "get_clipboard_files" -> "[]"
      [] OTHER -> "ClipboardError"

\* a read calls OpenClipboard at most three times and gives up after three
\* failed opens
OpensBounded ==
    /\ loc.opens <= OpenAttempts
    /\ (pc = "returned" /\ loc.opens = OpenAttempts /\ loc.opened = 0)
          => loc.result = GiveUp(loc.op)

\* C30: every clipboard read (format probe, rich-text read, file-list read)
\* calls OpenClipboard at most 3 times, never opens again after an open that
\* succeeded, and after 3 failed opens gives up: the probe returns False, the
\* file-list read returns an empty list, the rich-text read raises
\* ClipboardError.
C30_OpenRetries ==
    /\ loc.opens <= OpenAttempts
    /\ loc.opened <= 1
    /\ (pc = "returned" /\ loc.opens = OpenAttempts /\ loc.opened = 0)
          => loc.result = GiveUp(loc.op)

------------------------------------------------------------------------------
(* The order of the stages of a document-producing flow                      *)

ResultKeys == InsertSuccessKeys \cup {"workflow.insert_failed_no_app"}

\* the stage a call belongs to, 0 for a call that is no stage
StageOf(x) ==
    CASE x.op = "normalize_markdown" -> 1
      [] x.op = "convert_latex_delimiters" -> 2
      [] x.op \in Converters -> 3
      [] x.op = "apply_custom_processing" -> 4
      [] x.op = "EphemeralFile.write_bytes" -> 5
      [] x.op \in DocInserters -> 6
      [] x.op = "write" -> 7
      [] x.op = "notify" /\ Key(x) \in ResultKeys -> 8
      [] OTHER -> 0

\* stage s was run, and with success
Ran(s) == \E i \in 1..Len(calls) : StageOf(calls[i]) = s

Finished(s) == \E i \in 1..Len(calls) : StageOf(calls[i]) = s /\ calls[i].ok

------------------------------------------------------------------------------
(* A rich-text fragment that cannot be read                                  *)

\* the clipboard advertised rich text and get_clipboard_html raised
\* ClipboardError at line 65
FragmentReadFailed ==
    /\ loc.path = "text"
    /\ HasCall("is_clipboard_html", TRUE)
    /\ HasCall("get_clipboard_html", FALSE)

\* the last call of the trace with operation op failed
LastFailed(op) ==
    \E i \in 1..Len(calls) :
        /\ calls[i].op = op /\ ~calls[i].ok
        /\ \A j \in (i + 1)..Len(calls) : calls[j].op # op

\* C32: when the clipboard advertises rich text and reading the fragment
\* raises ClipboardError, the invocation goes on with the content as plain
\* text: the flow chosen is the Markdown flow of the detected target, it runs
\* on the clipboard text, the HTML converter is never invoked and no
\* clipboard-failure notification is emitted for the failed read.
C32_FragmentReadDegrades ==
    (Done /\ FragmentReadFailed)
        => /\ ~loc.is_html /\ ~loc.should_use_html
           /\ N({"convert_html_to_docx_bytes"}) = 0
           /\ ~HasNote("workflow.html.clipboard_failed")
           /\ HasNote("workflow.clipboard.read_failed") => LastFailed("get_clipboard_text")
           /\ HasCall("detect_active_app", TRUE) /\ ~LastFailed("get_clipboard_text")
                 => /\ loc.flow = RouteText(FALSE, loc.target, EnableExcel)
                    /\ loc.flow \in {"word", "excel", "no_app"}
                    /\ loc.md_text = TextV(clip.text)

C32_Witness ==
    /\ Done
    /\ FragmentReadFailed
    /\ loc.flow = "word"
    /\ loc.md_text = TextV("doc\n")
    /\ HasCall("convert_to_docx_bytes", TRUE)
    /\ loc.inserted = "true"

------------------------------------------------------------------------------
(* HotkeyManager: bind, unbind, restart, pause, resume on the macOS path     *)
(* (one keyboard.Listener, the hotkey swapped under a lock) and on the       *)
(* other path (one keyboard.GlobalHotKeys per binding).                      *)

\* listeners that were dropped while their thread was still alive
MaxOrphans == 1

\* hotkey strings; keyboard.HotKey.parse raises ValueError on "bad"
Hotkeys == {"h1", "h2", "bad"}

Parses(hotkey) == hotkey # "bad"

\* the fields of a manager: global_listener is "None", "running" (started)
\* or "dead" (start() raised), listens_to the hotkey its mapping holds;
\* orphans counts the listeners dropped by the manager and still alive
Manager0(macos) ==
    [macos |-> macos, global_listener |-> "None", listens_to |-> "None",
     current_hotkey |-> "None", _mac_listener |-> FALSE, _mac_hotkey |-> "None",
     orphans |-> 0]

\* what an operation did: the manager after it, whether it raised, how many
\* listeners it started
Op(m, raised, started) == [m |-> m, raised |-> raised, started |-> started]

\* is_bound
is_bound(m) ==
    IF m.macos THEN m._mac_hotkey # "None" /\ m.current_hotkey # "None"
    ELSE m.global_listener # "None" /\ m.current_hotkey # "None"

\* _mac_ensure_listener: the listener is created and started once
_mac_ensure_listener(m) ==
    IF m._mac_listener THEN Op(m, FALSE, 0)
    ELSE Op([m EXCEPT !._mac_listener = TRUE], FALSE, 1)

\* _mac_set_hotkey with a callback; HotKey.parse may raise
_mac_set_hotkey(m, hotkey) ==
    IF hotkey = "None" THEN Op([m EXCEPT !._mac_hotkey = "None"], FALSE, 0)
    ELSE IF ~Parses(hotkey) THEN Op(m, TRUE, 0)
    ELSE Op([m EXCEPT !._mac_hotkey = hotkey], FALSE, 0)

\* _stop_listener dropping the hotkey whatever keep_hotkey says
_stop_listener_forgetting(m, keep_hotkey, stop) ==
    IF m.global_listener = "None" THEN m
    ELSE [m EXCEPT !.global_listener = "None", !.listens_to = "None",
                   !.current_hotkey = "None",
                   !.orphans = IF m.global_listener = "running" /\ stop = "alive"
                               THEN @ + 1 ELSE @]

\* _stop_listener: stop() and join(timeout=1.0); an exception of stop() and a
\* thread that outlives the join are logged, the listener is dropped anyway
_stop_listener(m, keep_hotkey, stop) ==
    IF m.global_listener = "None" THEN m
    ELSE [m EXCEPT !.global_listener = "None", !.listens_to = "None",
                   !.current_hotkey = IF keep_hotkey THEN @ ELSE "None",
                   !.orphans = IF m.global_listener = "running" /\ stop = "alive"
                               THEN @ + 1 ELSE @]

\* unbind
unbind(m, stop) ==
    IF m.macos
    THEN [_mac_set_hotkey(m, "None").m EXCEPT !.current_hotkey = "None"]
    ELSE IF m.global_listener = "None" THEN m
    ELSE _stop_listener(m, FALSE, stop)

\* lines 106-116 and 179-186: keyboard.GlobalHotKeys({hotkey: callback}),
\* daemon = True, start()
StartGlobalHotKeys(m, hotkey, start) ==
    IF ~Parses(hotkey) THEN Op(m, TRUE, 0)
    ELSE IF start # "ok"
    THEN Op([m EXCEPT !.global_listener = "dead", !.listens_to = hotkey], TRUE, 0)
    ELSE Op([m EXCEPT !.global_listener = "running", !.listens_to = hotkey], FALSE, 1)

\* bind
bind(m, hotkey, start, stop) ==
    IF m.macos
    THEN LET e == _mac_ensure_listener(m)
             s == _mac_set_hotkey(e.m, hotkey)
         IN  IF s.raised THEN Op(s.m, TRUE, e.started)
             ELSE Op([s.m EXCEPT !.current_hotkey = hotkey], FALSE, e.started)
    ELSE LET g == StartGlobalHotKeys(unbind(m, stop), hotkey, start)
         IN  IF g.raised THEN g
             ELSE Op([g.m EXCEPT !.current_hotkey = hotkey], FALSE, g.started)

\* restart
restart(m, hotkey, start, stop) == bind(unbind(m, stop), hotkey, start, stop)

\* pause
pause(m, stop) ==
    IF m.macos
    THEN (IF m.current_hotkey = "None" THEN m ELSE _mac_set_hotkey(m, "None").m)
    ELSE IF m.global_listener = "None" THEN m
    ELSE _stop_listener(m, TRUE, stop)

\* resume: the exception of the listener is logged, not raised
resume(m, start) ==
    IF m.macos
    THEN IF m.current_hotkey = "None" \/ m._mac_hotkey # "None" THEN Op(m, FALSE, 0)
         ELSE LET e == _mac_ensure_listener(m)
                  s == _mac_set_hotkey(e.m, m.current_hotkey)
              IN  Op(s.m, s.raised, e.started)
    ELSE IF m.current_hotkey = "None" \/ m.global_listener # "None" THEN Op(m, FALSE, 0)
    ELSE Op(StartGlobalHotKeys(m, m.current_hotkey, start).m, FALSE,
            StartGlobalHotKeys(m, m.current_hotkey, start).started)

\* the answers of listener.start() and of listener.stop() with its join
StartOutcomes == {"ok", "raise"}

StopOutcomes(m) == IF m.orphans < MaxOrphans THEN {"stopped", "alive"} ELSE {"stopped"}

\* a call of the manager as the history keeps it
Called(op, arg, r, pre) ==
    [op |-> op, arg |-> arg, raised |-> r.raised, started |-> r.started, pre |-> pre]

InitHotkey ==
    /\ pc = "hotkey"
    /\ \E macos \in BOOLEAN :
          loc = [m |-> Manager0(macos),
                 last |-> Called("__init__", "None", Op(Manager0(macos), FALSE, 0),
                                 Manager0(macos)),
                 prev |-> Called("__init__", "None", Op(Manager0(macos), FALSE, 0),
                                 Manager0(macos))]
    /\ exc = "none"
    /\ WorkflowIdle

\* the manager goes from loc.m to r.m by the call `op`
Calls(op, arg, r) ==
    /\ pc = "hotkey"
    /\ loc' = [m |-> r.m, last |-> Called(op, arg, r, loc.m), prev |-> loc.last]
    /\ UNCHANGED <<pc, config, clip, pandoc_integration, calls, exc, escaped>>

Bind ==
    \E hotkey \in Hotkeys, start \in StartOutcomes, stop \in StopOutcomes(loc.m) :
        Calls("bind", hotkey, bind(loc.m, hotkey, start, stop))

Unbind ==
    \E stop \in StopOutcomes(loc.m) :
        Calls("unbind", "None", Op(unbind(loc.m, stop), FALSE, 0))

Restart ==
    \E hotkey \in Hotkeys, start \in StartOutcomes, stop \in StopOutcomes(loc.m) :
        Calls("restart", hotkey, restart(loc.m, hotkey, start, stop))

Pause ==
    \E stop \in StopOutcomes(loc.m) :
        Calls("pause", "None", Op(pause(loc.m, stop), FALSE, 0))

Resume ==
    /\ pc = "hotkey"
    /\ \E start \in StartOutcomes :
          Calls("resume", "None", resume(loc.m, start))

\* the thread of a dropped listener ends
ListenerExits ==
    /\ pc = "hotkey"
    /\ loc.m.orphans > 0
    /\ loc' = [loc EXCEPT !.m.orphans = @ - 1]
    /\ UNCHANGED <<pc, config, clip, pandoc_integration, calls, exc, escaped>>

NextHotkey ==
    \/ Bind
    \/ Unbind
    \/ Restart
    \/ Pause
    \/ Resume
    \/ ListenerExits

SpecHotkey == InitHotkey /\ [][NextHotkey]_vars

\* the listeners that are running
ActiveListeners(m) ==
    IF m.macos THEN (IF m._mac_listener THEN 1 ELSE 0)
    ELSE (IF m.global_listener = "running" THEN 1 ELSE 0) + m.orphans

\* C33: when unbind() returns, current_hotkey is None and is_bound() is
\* false, whatever calls came before (also when the hotkey was paused), and
\* a resume(callback) that follows starts no listener and binds nothing.
C33_UnbindUnbinds ==
    /\ loc.last.op = "unbind"
          => loc.m.current_hotkey = "None" /\ ~is_bound(loc.m)
    /\ (loc.last.op = "resume" /\ loc.prev.op = "unbind")
          => loc.last.started = 0 /\ ~is_bound(loc.m)

\* C34: at most one global hotkey listener is active at any time: a listener
\* is started only after the one started before it has been stopped and
\* dropped, and resume() starts nothing when a listener is already active.
C34_SingleListener ==
    /\ ActiveListeners(loc.m) <= 1
    /\ (loc.last.op = "resume" /\ ActiveListeners(loc.last.pre) > 0
        /\ (loc.last.pre.macos \/ loc.last.pre.global_listener = "running"))
          => loc.last.started = 0

\* C35: pause() and resume(callback) leave current_hotkey as it is; after
\* pause() is_bound() is false; after pause() and then resume() of a manager
\* that had a hotkey, is_bound() is true with the same hotkey; with no hotkey
\* bound both calls change neither current_hotkey nor is_bound() nor the
\* listeners running; on the macOS path and on the other.
C35_PauseResume ==
    /\ loc.last.op \in {"pause", "resume"}
          => /\ loc.m.current_hotkey = loc.last.pre.current_hotkey
             /\ ~loc.last.raised
    /\ loc.last.op = "pause" => ~is_bound(loc.m)
    /\ (loc.last.op = "resume" /\ loc.prev.op = "pause"
        /\ loc.prev.pre.current_hotkey # "None")
          => /\ is_bound(loc.m)
             /\ loc.m.current_hotkey = loc.prev.pre.current_hotkey
    /\ (loc.last.op \in {"pause", "resume"} /\ loc.last.pre.current_hotkey = "None")
          => /\ loc.m.current_hotkey = "None"
             /\ ~is_bound(loc.m)
             /\ loc.last.started = 0
             /\ ActiveListeners(loc.m) <= ActiveListeners(loc.last.pre)

C35_Witness ==
    /\ loc.last.op = "resume"
    /\ loc.prev.op = "pause"
    /\ ~loc.m.macos
    /\ is_bound(loc.prev.pre)
    /\ ~is_bound(loc.last.pre)
    /\ is_bound(loc.m)
    /\ loc.last.started = 1
    /\ loc.m.current_hotkey = "h1"
    /\ loc.m.listens_to = "h1"

\* C36: off macOS, when bind(hotkey, callback) raises while creating or
\* starting the new listener, the manager is left unbound: the listener of
\* the hotkey bound before has been stopped and is not restored,
\* current_hotkey is None and is_bound() is false.
C36_BindFailure ==
    (loc.last.op = "bind" /\ ~loc.m.macos /\ loc.last.raised)
        => /\ loc.m.current_hotkey = "None"
           /\ ~is_bound(loc.m)
           /\ loc.m.global_listener # "running"

------------------------------------------------------------------------------
(* The service NotificationManager as a singleton: __new__ with its          *)
(* double-checked lock, __init__ with its _initialized guard, threads that   *)
(* construct the manager and notify, and the workers __init__ starts.        *)

\* constructions per thread
MaxConstructions == 2

Constructors == {"t1", "t2"}

\* the workers the constructions can start, in the order of their start
WorkerNames == <<"w1", "w2">>

WorkerThreads == {WorkerNames[i] : i \in 1..Len(WorkerNames)}

\* a construction that finds _initialized missing makes a queue; each thread
\* can find it missing once
QueueIds == 1..Cardinality(Constructors)

\* class and instance attributes: _instance (0 for None, else the number of
\* the object), the holder of _lock, _initialized, _q (0 while the attribute
\* is missing, else the number of the queue), and what was created so far
InitSingleton ==
    /\ pc = [t \in Constructors |-> "idle"]
             @@ [w \in WorkerThreads |-> "unstarted"]
    /\ loc = [_instance |-> 0, objects |-> 0, _lock |-> "free",
              _initialized |-> FALSE, _q |-> 0, queues |-> 0, workers |-> 0,
              items |-> [k \in QueueIds |-> 0],
              waits_on |-> [w \in WorkerThreads |-> 0],
              made |-> [t \in Constructors |-> 0],
              got |-> [t \in Constructors |-> {}]]
    /\ exc = "none"
    /\ WorkflowIdle

Rest == <<config, clip, pandoc_integration, calls, exc, escaped>>

\* NotificationManager(): __new__, line 97: if cls._instance is None
NewCheck(t) ==
    /\ pc[t] = "idle"
    /\ loc.made[t] < MaxConstructions
    /\ pc' = [pc EXCEPT ![t] = IF loc._instance = 0 THEN "lock" ELSE "return_new"]
    /\ UNCHANGED <<loc, Rest>>

\* line 98: with cls._lock
NewLock(t) ==
    /\ pc[t] = "lock"
    /\ loc._lock = "free"
    /\ loc' = [loc EXCEPT !._lock = t]
    /\ pc' = [pc EXCEPT ![t] = "locked"]
    /\ UNCHANGED Rest

\* lines 99-100 and the release of the lock
NewCreate(t) ==
    /\ pc[t] = "locked"
    /\ loc' = IF loc._instance = 0
              THEN [loc EXCEPT !._instance = loc.objects + 1, !.objects = @ + 1,
                               !._lock = "free"]
              ELSE [loc EXCEPT !._lock = "free"]
    /\ pc' = [pc EXCEPT ![t] = "return_new"]
    /\ UNCHANGED Rest

\* line 101: return cls._instance, then __init__, line 105: hasattr
InitCheck(t) ==
    /\ pc[t] = "return_new"
    /\ loc' = [loc EXCEPT !.got[t] = @ \cup {loc._instance}]
    /\ pc' = [pc EXCEPT ![t] = IF loc._initialized THEN "constructed" ELSE "init_q"]
    /\ UNCHANGED Rest

\* line 113: self._q = queue.Queue(maxsize=max_queue)
InitQueue(t) ==
    /\ pc[t] = "init_q"
    /\ loc' = [loc EXCEPT !._q = loc.queues + 1, !.queues = @ + 1]
    /\ pc' = [pc EXCEPT ![t] = "init_worker"]
    /\ UNCHANGED Rest

\* lines 115-116: the worker thread is created and started
InitWorker(t) ==
    /\ pc[t] = "init_worker"
    /\ loc' = [loc EXCEPT !.workers = @ + 1]
    /\ pc' = [pc EXCEPT ![t] = "init_flag", ![WorkerNames[loc.workers + 1]] = "loop"]
    /\ UNCHANGED Rest

\* line 117: self._initialized = True
InitFlag(t) ==
    /\ pc[t] = "init_flag"
    /\ loc' = [loc EXCEPT !._initialized = TRUE]
    /\ pc' = [pc EXCEPT ![t] = "constructed"]
    /\ UNCHANGED Rest

\* the constructing thread notifies: self._q.put(...)
NotifyOnce(t) ==
    /\ pc[t] = "constructed"
    /\ loc' = [loc EXCEPT !.items[loc._q] = @ + 1, !.made[t] = @ + 1]
    /\ pc' = [pc EXCEPT ![t] = "idle"]
    /\ UNCHANGED Rest

\* _worker_loop, line 173: self._q.get(timeout=0.25) evaluates self._q
WorkerWaits(w) ==
    /\ pc[w] = "loop"
    /\ loc' = [loc EXCEPT !.waits_on[w] = loc._q]
    /\ pc' = [pc EXCEPT ![w] = "get"]
    /\ UNCHANGED Rest

\* the get returns an item of the queue it waits on, or queue.Empty after
\* the timeout
WorkerTakes(w) ==
    /\ pc[w] = "get"
    /\ loc' = [loc EXCEPT !.items[loc.waits_on[w]] = IF @ > 0 THEN @ - 1 ELSE 0,
                          !.waits_on[w] = 0]
    /\ pc' = [pc EXCEPT ![w] = "loop"]
    /\ UNCHANGED Rest

NextSingleton ==
    \/ \E t \in Constructors :
          \/ NewCheck(t)
          \/ NewLock(t)
          \/ NewCreate(t)
          \/ InitCheck(t)
          \/ InitQueue(t)
          \/ InitWorker(t)
          \/ InitFlag(t)
          \/ NotifyOnce(t)
    \/ \E w \in WorkerThreads :
          \/ WorkerWaits(w)
          \/ WorkerTakes(w)

SpecSingleton == InitSingleton /\ [][NextSingleton]_vars

\* every construction returned the one object
OneObject ==
    /\ loc.objects <= 1
    /\ \A t \in Constructors : loc.got[t] \subseteq {1}

\* C37: however often and from however many threads the manager is
\* constructed, every construction returns the same object, its queue and
\* its worker thread are created exactly once, and no notification lies on a
\* queue that no worker consumes.
C37_Singleton ==
    /\ OneObject
    /\ loc.queues <= 1
    /\ loc.workers <= 1
    /\ \A k \in QueueIds :
          (loc.items[k] > 0 /\ k # loc._q)
              => \E w \in WorkerThreads : pc[w] = "get" /\ loc.waits_on[w] = k

------------------------------------------------------------------------------
(* HotkeyDialog: save, cancel and window close, and the on-close callback    *)
(* that resumes the hotkey                                                   *)

\* callbacks waiting in the Tk loop (app_state.root.after(0, ...))
MaxPending == 2

\* the dialog after __init__: the window exists, nothing is recorded, the
\* callback was not called; `invoked` counts the calls of on_close_callback,
\* `pending` the scheduled calls of _call_on_close_callback, `dismissed` says
\* that a save succeeded or the dialog was cancelled or closed
Dialog0(has_callback, app_root) ==
    [on_close_callback |-> has_callback, app_root |-> app_root, window |-> TRUE,
     new_hotkey |-> "None", _close_callback_called |-> FALSE, invoked |-> 0,
     pending |-> 0, dismissed |-> FALSE, last |-> "__init__"]

\* _call_on_close_callback without the test of lines 101-102
_call_on_close_callback_unguarded(d) ==
    [d EXCEPT !._close_callback_called = TRUE,
              !.invoked = IF d.on_close_callback THEN @ + 1 ELSE @]

\* _call_on_close_callback: an exception of the callback is logged
_call_on_close_callback(d) ==
    IF d._close_callback_called THEN d
    ELSE [d EXCEPT !._close_callback_called = TRUE,
                   !.invoked = IF d.on_close_callback THEN @ + 1 ELSE @]

\* _schedule_on_close_callback: after(0, ...) on the application root when it
\* exists, the call itself otherwise and when scheduling raises
_schedule_on_close_callback(d, after) ==
    IF d._close_callback_called THEN d
    ELSE IF d.app_root /\ after = "ok" THEN [d EXCEPT !.pending = @ + 1]
    ELSE _call_on_close_callback(d)

\* _safe_destroy: an exception of destroy() is swallowed, the window stays
_safe_destroy(d, destroy) ==
    IF destroy = "ok" THEN [d EXCEPT !.window = FALSE] ELSE d

\* _cleanup, _safe_destroy, _schedule_on_close_callback
Dismiss(d, destroy, after, event) ==
    [_schedule_on_close_callback(_safe_destroy(d, destroy), after)
        EXCEPT !.dismissed = TRUE, !.last = event]

InitDialog ==
    /\ pc = "dialog"
    /\ \E has_callback \in BOOLEAN, app_root \in BOOLEAN :
          loc = Dialog0(has_callback, app_root)
    /\ exc = "none"
    /\ WorkflowIdle

\* the events of a dialog whose window exists
DialogEvent(d) ==
    /\ pc = "dialog"
    /\ loc.window
    /\ loc.pending < MaxPending
    /\ loc' = d
    /\ UNCHANGED <<pc, config, clip, pandoc_integration, calls, exc, escaped>>

\* a recording finished: _on_recording_finish with a hotkey, or with an error
RecordingFinish ==
    /\ loc.window
    /\ \E h \in {"None", "h1"} :
          DialogEvent([loc EXCEPT !.new_hotkey = h, !.last = "record"])

\* _on_save: nothing recorded, the confirmation or the conflict question
\* declined, on_save raising, or the save and the dismissal
OnSave ==
    /\ loc.window
    /\ \E answer \in {"declined", "raise", "ok"}, destroy \in {"ok", "raise"},
          after \in {"ok", "raise"} :
          DialogEvent(IF loc.new_hotkey = "None" \/ answer = "declined"
                      THEN [loc EXCEPT !.last = "save_declined"]
                      ELSE IF answer = "raise" THEN [loc EXCEPT !.last = "save_failed"]
                      ELSE Dismiss(loc, destroy, after, "save"))

\* _on_cancel
OnCancel ==
    /\ loc.window
    /\ \E destroy \in {"ok", "raise"}, after \in {"ok", "raise"} :
          DialogEvent(Dismiss(loc, destroy, after, "cancel"))

\* _on_close (WM_DELETE_WINDOW)
OnClose ==
    /\ loc.window
    /\ \E destroy \in {"ok", "raise"}, after \in {"ok", "raise"} :
          DialogEvent(Dismiss(loc, destroy, after, "close"))

\* the Tk loop runs a scheduled _call_on_close_callback
RunScheduled ==
    /\ pc = "dialog"
    /\ loc.pending > 0
    /\ loc' = [_call_on_close_callback(loc) EXCEPT !.pending = @ - 1,
                                                   !.last = "scheduled_call"]
    /\ UNCHANGED <<pc, config, clip, pandoc_integration, calls, exc, escaped>>

NextDialog ==
    \/ RecordingFinish
    \/ OnSave
    \/ OnCancel
    \/ OnClose
    \/ RunScheduled

SpecDialog == InitDialog /\ [][NextDialog]_vars

\* C38: the on-close callback of a dialog is invoked at most once, whatever
\* save, cancel and close events occur and however often it is scheduled,
\* and once a save succeeded or the dialog was cancelled or closed it has
\* been invoked once as soon as no scheduled call is waiting.
C38_OnCloseOnce ==
    /\ loc.invoked <= 1
    /\ (loc.on_close_callback /\ loc.dismissed /\ loc.pending = 0)
          => loc.invoked = 1
    /\ ~loc.dismissed => loc.invoked = 0

C38_Witness ==
    /\ loc.on_close_callback
    /\ loc.dismissed
    /\ loc.window
    /\ loc.invoked = 1
    /\ loc.pending = 1
    /\ loc.last = "save"

------------------------------------------------------------------------------
(* enable_excel switched off                                                 *)

\* the invocation saw enable_excel as false
ExcelDisabled == HasRead("enable_excel") /\ ~config.enable_excel

\* C39: with enable_excel false no spreadsheet operation is performed,
\* whatever the content, the target (Excel and WPS spreadsheets included) and
\* the policy: no spreadsheet inserter and no spreadsheet generator is
\* invoked, a spreadsheet target is treated as no target, and table-shaped
\* Markdown that reaches the no-target policy is turned into a document.
C39_ExcelDisabled ==
    (Done /\ ExcelDisabled)
        => /\ N(SheetInserters) = 0
           /\ N(SheetGenerators) = 0
           /\ loc.flow # "excel"
           /\ loc.target \in ExcelTargets /\ loc.flow # ""
                 => loc.flow \in {"no_app", "files_no_app"}
           /\ (loc.flow = "no_app" /\ ~loc.should_use_html
               /\ parse_markdown_table(loc.md_text) # NoneV
               /\ HasRead("no_app_action") /\ config.no_app_action # "none")
                 => \E i \in 1..Len(calls) :
                       /\ calls[i].op = "normalize_markdown"
                       /\ calls[i].arg = loc.md_text

C39_Witness ==
    /\ Done
    /\ ExcelDisabled
    /\ loc.target = "excel"
    /\ loc.flow = "no_app"
    /\ loc.md_text = TextV("tbl")
    /\ config.no_app_action = "open"
    /\ HasCall("convert_to_docx_bytes", TRUE)
    /\ HasCall("awaken_and_open_document", TRUE)

------------------------------------------------------------------------------
(* Recording a hotkey with Tk events (macOS path of the dialog)              *)

RecordKeys == {"ctrl", "a", "enter"}

\* the recording fields of the dialog after __init__; `held` are the keys
\* that are physically down, `reported` the keys of the last report of
\* _finish_tk_recording, `reports` whether the current recording reported
Recorder0(held) ==
    [_tk_recording |-> FALSE, _tk_pressed_keys |-> {}, _tk_released_keys |-> {},
     _tk_all_pressed_keys |-> {}, held |-> held, reported |-> {}, reports |-> FALSE]

\* _stop_tk_recording
_stop_tk_recording(d) ==
    [d EXCEPT !._tk_recording = FALSE, !._tk_pressed_keys = {},
              !._tk_released_keys = {}, !._tk_all_pressed_keys = {}]

\* _finish_tk_recording: the keys are reported through _on_recording_finish
_finish_tk_recording(d) ==
    [_stop_tk_recording(d) EXCEPT !.reported = d._tk_all_pressed_keys,
                                  !.reports = TRUE]

\* _tk_on_key_press
_tk_on_key_press(d, key_name) ==
    IF ~d._tk_recording \/ key_name \in d._tk_pressed_keys THEN d
    ELSE [d EXCEPT !._tk_pressed_keys = @ \cup {key_name},
                   !._tk_all_pressed_keys = @ \cup {key_name}]

\* _tk_on_key_release
_tk_on_key_release(d, key_name) ==
    IF ~d._tk_recording THEN d
    ELSE LET r == [d EXCEPT !._tk_released_keys = @ \cup {key_name},
                            !._tk_pressed_keys = @ \ {key_name}]
         IN  IF r._tk_all_pressed_keys # {}
                /\ r._tk_all_pressed_keys = r._tk_released_keys
             THEN _finish_tk_recording(r)
             ELSE r

InitRecord ==
    /\ pc = "record"
    /\ loc = Recorder0({})
    /\ exc = "none"
    /\ WorkflowIdle

\* _start_recording on macOS: the record button is pressed
StartRecording ==
    /\ pc = "record"
    /\ ~loc._tk_recording
    /\ loc' = [_stop_tk_recording(loc) EXCEPT !._tk_recording = TRUE,
                                              !.reports = FALSE]
    /\ UNCHANGED <<pc, config, clip, pandoc_integration, calls, exc, escaped>>

\* a key goes down (or repeats): <KeyPress>
TkKeyPress ==
    /\ pc = "record"
    /\ \E k \in RecordKeys :
          loc' = [_tk_on_key_press(loc, k) EXCEPT !.held = @ \cup {k}]
    /\ UNCHANGED <<pc, config, clip, pandoc_integration, calls, exc, escaped>>

\* a key that is down goes up: <KeyRelease>
TkKeyRelease ==
    /\ pc = "record"
    /\ \E k \in loc.held :
          loc' = [_tk_on_key_release(loc, k) EXCEPT !.held = @ \ {k}]
    /\ UNCHANGED <<pc, config, clip, pandoc_integration, calls, exc, escaped>>

NextRecord ==
    \/ StartRecording
    \/ TkKeyPress
    \/ TkKeyRelease

SpecRecord == InitRecord /\ [][NextRecord]_vars

\* C40: a Tk recording finishes, and reports, as soon as at least one key
\* was pressed during the recording and every key pressed during it has been
\* released, whatever press and release events arrive, the release of a key
\* that went down before the recording started included.
C40_RecordingFinishes ==
    loc._tk_recording
        => (loc._tk_all_pressed_keys = {} \/ loc._tk_pressed_keys # {})

====
